---- MODULE Spec2Model ----
(***************************************************************************)
(* Geometry construction of torax (src/torax/geometry.py): the 1-D grid,   *)
(* the face-to-cell helper, the circular analytic builder, the standard    *)
(* (equilibrium-derived) builder and its two entry points, build_geometry  *)
(* and build_geometry_from_chease, which write the equilibrium's current   *)
(* back into the caller's configuration (the variable runtime_params).     *)
(*                                                                         *)
(* The bodies of the two builders are written as a chain of operators, one *)
(* per stage of the function (grids, native values, interpolation, ratios, *)
(* return value), each taking the values of the stages before it as        *)
(* parameters, so that every intermediate value is bound once.             *)
(*                                                                         *)
(* Numbers.  The program computes with floating-point arrays.  The model   *)
(* computes with exact values  n/d * pi^p  (a record [n, d, p], d >= 0, in *)
(* lowest terms).  d = 0 stands for the non-finite results of a division   *)
(* by zero: n = 1 is +inf, n = -1 is -inf and n = 0 is NaN.  Rounding is   *)
(* not modelled: every equality below is an equality of exact values.      *)
(*                                                                         *)
(* Arrays are sequences, so index i of the program is index i+1 here.      *)
(***************************************************************************)
EXTENDS Integers, Sequences, FiniteSets, TLC

VARIABLES pc, args, ret, runtime_params

vars == <<pc, args, ret, runtime_params>>

----------------------------------------------------------------------------
(* Bounds of the inputs that are explored.                                 *)

MaxNx == 4
MaxDxNum == 3
MaxDxDen == 2
MaxFaceLen == 3
MaxFaceVal == 1
MaxSlope == 2
MaxNr == 3
MaxHiresFac == 2
MaxKappaNum == 4
MaxRmaj == 4
MaxNative == 4
MaxShape == 1
MaxIpSlope == 2
MaxConfigIp == 2
MaxCalls == 3
MaxCells == 2
MaxMode == 3
MaxSourceVal == 2
MaxAssign == 1

----------------------------------------------------------------------------
(* Exact arithmetic standing for the float arithmetic of jax.numpy.        *)

Abs(x) == IF x < 0 THEN -x ELSE x

Sgn(x) == IF x > 0 THEN 1 ELSE IF x < 0 THEN -1 ELSE 0

RECURSIVE Gcd(_, _)
Gcd(a, b) == IF b = 0 THEN a ELSE Gcd(b, a % b)

NaN == [n |-> 0, d |-> 0, p |-> 0]

Inf == [n |-> 1, d |-> 0, p |-> 0]

Zero == [n |-> 0, d |-> 1, p |-> 0]

One == [n |-> 1, d |-> 1, p |-> 0]

\* n/d * pi^p in canonical form (d may be given negative or zero).
Norm(n, d, p) ==
    IF d = 0 THEN [n |-> Sgn(n), d |-> 0, p |-> 0]
    ELSE IF n = 0 THEN Zero
    ELSE LET g == Gcd(Abs(n), Abs(d))
         IN  [n |-> Sgn(d) * (n \div g), d |-> Abs(d) \div g, p |-> p]

Rat(n, d) == Norm(n, d, 0)

Int2Num(k) == [n |-> k, d |-> 1, p |-> 0]

\* pi^k
PiPow(k) == [n |-> 1, d |-> 1, p |-> k]

IsFinite(a) == a.d # 0

IsNaN(a) == a.d = 0 /\ a.n = 0

Neg(a) == [n |-> -a.n, d |-> a.d, p |-> a.p]

Mul(a, b) ==
    IF a.d = 0 \/ b.d = 0 THEN [n |-> Sgn(a.n) * Sgn(b.n), d |-> 0, p |-> 0]
    ELSE IF a.n = 0 \/ b.n = 0 THEN Zero
    ELSE LET g1 == Gcd(Abs(a.n), b.d)
             g2 == Gcd(Abs(b.n), a.d)
         IN  [n |-> (a.n \div g1) * (b.n \div g2),
              d |-> (a.d \div g2) * (b.d \div g1),
              p |-> a.p + b.p]

\* 1/b: 1/0 is inf, 1/inf is 0, 1/NaN is NaN.
Inv(b) ==
    IF b.d = 0 THEN (IF b.n = 0 THEN NaN ELSE Zero)
    ELSE IF b.n = 0 THEN Inf
    ELSE [n |-> Sgn(b.n) * b.d, d |-> Abs(b.n), p |-> -b.p]

Div(a, b) == Mul(a, Inv(b))

\* Sums are only ever taken of values with the same power of pi.
Add(a, b) ==
    CASE a.d = 0 /\ b.d = 0 -> (IF a.n = b.n THEN a ELSE NaN)
      [] a.d = 0 /\ b.d # 0 -> a
      [] a.d # 0 /\ b.d = 0 -> b
      [] a.d # 0 /\ b.d # 0 /\ a.n = 0 -> b
      [] a.d # 0 /\ b.d # 0 /\ a.n # 0 /\ b.n = 0 -> a
      [] a.d # 0 /\ b.d # 0 /\ a.n # 0 /\ b.n # 0 /\ a.p = b.p ->
            LET g == Gcd(a.d, b.d)
                l == (a.d \div g) * b.d
            IN  Norm(a.n * (l \div a.d) + b.n * (l \div b.d), l, a.p)

Sub(a, b) == Add(a, Neg(b))

Sq(a) == Mul(a, a)

Half == Rat(1, 2)

\* a < b, a <= b for finite values with the same power of pi (false on NaN).
Lt(a, b) == a.d # 0 /\ b.d # 0 /\ a.n * b.d < b.n * a.d

Le(a, b) == a.d # 0 /\ b.d # 0 /\ a.n * b.d <= b.n * a.d

----------------------------------------------------------------------------
(* Element-wise array arithmetic (numpy broadcasting of scalar and array). *)

VAdd(u, v) == [i \in 1..Len(u) |-> Add(u[i], v[i])]

VSub(u, v) == [i \in 1..Len(u) |-> Sub(u[i], v[i])]

VMul(u, v) == [i \in 1..Len(u) |-> Mul(u[i], v[i])]

VDiv(u, v) == [i \in 1..Len(u) |-> Div(u[i], v[i])]

VSq(u) == [i \in 1..Len(u) |-> Sq(u[i])]

SMul(c, v) == [i \in 1..Len(v) |-> Mul(c, v[i])]

SAdd(c, v) == [i \in 1..Len(v) |-> Add(c, v[i])]

SDiv(v, c) == [i \in 1..Len(v) |-> Div(v[i], c)]

\* jnp.zeros(k), jnp.ones(k)
zeros(k) == [i \in 1..k |-> Zero]

ones(k) == [i \in 1..k |-> One]

\* v[1:] and v[:-1]
Rest(v) == IF Len(v) = 0 THEN <<>> ELSE SubSeq(v, 2, Len(v))

Front(v) == IF Len(v) = 0 THEN <<>> ELSE SubSeq(v, 1, Len(v) - 1)

\* linspace with the endpoint left out: the step is (stop - start) / num.
linspace_no_endpoint(start, stop, num) ==
    IF num = 1 THEN <<start>>
    ELSE [i \in 1..num |->
            Add(start, Mul(Int2Num(i - 1), Div(Sub(stop, start), Int2Num(num))))]

\* jnp.linspace(start, stop, num) for num >= 0; num < 0 raises ValueError.
linspace(start, stop, num) ==
    IF num = 1 THEN <<start>>
    ELSE [i \in 1..num |->
            Add(start, Mul(Int2Num(i - 1), Div(Sub(stop, start), Int2Num(num - 1))))]

linspaceRaises(num) == num < 0

----------------------------------------------------------------------------
(* Grid1D                                                                  *)

\* Grid1D.construct with the cell centers started at 0 instead of dx/2.
Grid1D_construct_cells_from_zero(nx, dx) ==
    IF linspaceRaises(nx + 1) \/ linspaceRaises(nx)
    THEN [status |-> "ValueError"]
    ELSE [status |-> "ok",
          nx |-> nx,
          dx |-> dx,
          face_centers |-> linspace(Zero, Mul(Int2Num(nx), dx), nx + 1),
          cell_centers |-> linspace(Zero, Mul(Sub(Int2Num(nx), Half), dx), nx)]

\* Grid1D.construct(nx, dx).  Neither construct nor __post_init__ looks at
\* the sign of nx or dx; the only failure is linspace's for a negative count.
Grid1D_construct(nx, dx) ==
    IF linspaceRaises(nx + 1) \/ linspaceRaises(nx)
    THEN [status |-> "ValueError"]
    ELSE [status |-> "ok",
          nx |-> nx,
          dx |-> dx,
          face_centers |-> linspace(Zero, Mul(Int2Num(nx), dx), nx + 1),
          cell_centers |-> linspace(Mul(dx, Half),
                                    Mul(Sub(Int2Num(nx), Half), dx), nx)]

\* face_to_cell taking the left face value instead of the midpoint average.
face_to_cell_left(face) == Front(face)

\* face_to_cell(face) = 0.5 * (face[:-1] + face[1:])
face_to_cell(face) == SMul(Half, VAdd(Front(face), Rest(face)))

----------------------------------------------------------------------------
(* Circular analytic builder                                               *)

\* Values c * x^(-3/2), used for g3 = 1/(Rmaj^2 * (1 - (r/Rmaj)^2)^(3/2)) and
\* its multiples: the power 3/2 is kept symbolic.
Surd(c, x) == [c |-> c, x |-> x]

SurdZero == Surd(Zero, One)

\* 1 / (Rmaj**2 * (1 - (r / Rmaj) ** 2) ** (3.0 / 2.0))
circular_g3(Rmaj, r) ==
    [i \in 1..Len(r) |->
        Surd(Inv(Sq(Rmaj)), Sub(One, Sq(Div(r[i], Rmaj))))]

\* g2 * g3 / r
circular_g2g3_over_rho(g2, g3, r) ==
    [i \in 1..Len(r) |-> Surd(Div(Mul(g2[i], g3[i].c), r[i]), g3[i].x)]

\* The elongation ramp reversed: kappa_param on the axis, 1 at the edge.
elongation_profile_reversed(r_norm, kappa_param) ==
    SAdd(kappa_param, SMul(Sub(One, kappa_param), r_norm))

\* 1 + r_norm * (kappa_param - 1)
elongation_profile(r_norm, kappa_param) ==
    SAdd(One, SMul(Sub(kappa_param, One), r_norm))

\* The volume with r in place of r**2.
torus_volume_linear_r(Rmaj, r, kappa) ==
    VMul(SMul(Mul(Norm(2, 1, 2), Rmaj), r), kappa)

\* 2 * pi**2 * Rmaj * r**2 * kappa
torus_volume(Rmaj, r, kappa) ==
    VMul(SMul(Mul(Norm(2, 1, 2), Rmaj), VSq(r)), kappa)

\* pi * r**2 * kappa
torus_area(r, kappa) == VMul(SMul(PiPow(1), VSq(r)), kappa)

\* The derivative of the volume without the term of the elongation ramp.
circular_vpr_no_ramp(Rmaj, r, kappa, volume, kappa_param, rmax) ==
    VMul(SMul(Mul(Norm(4, 1, 2), Rmaj), r), kappa)

\* 4 * pi**2 * Rmaj * r * kappa + volume / kappa * (kappa_param - 1) / rmax
circular_vpr(Rmaj, r, kappa, volume, kappa_param, rmax) ==
    VAdd(VMul(SMul(Mul(Norm(4, 1, 2), Rmaj), r), kappa),
         SDiv(SMul(Sub(kappa_param, One), VDiv(volume, kappa)), rmax))

\* 2 * pi * r * kappa + area / kappa * (kappa_param - 1) / rmax
circular_spr(r, kappa, area, kappa_param, rmax) ==
    VAdd(VMul(SMul(Norm(2, 1, 1), r), kappa),
         SDiv(SMul(Sub(kappa_param, One), VDiv(area, kappa)), rmax))

\* The ratio taken on every face, the axis included.
ratio_face_divide_all(limit, g_face, vpr_face) == VDiv(g_face, vpr_face)

\* The ratio off the axis with 0 on the axis whatever the limit.
ratio_face_zero_limit(limit, g_face, vpr_face) ==
    <<Zero>> \o VDiv(Rest(g_face), Rest(vpr_face))

\* jnp.concatenate([limit, g_face[1:] / vpr_face[1:]]): the ratio on the
\* faces off the axis, with the on-axis value set to its limit.
ratio_face(limit, g_face, vpr_face) ==
    <<limit>> \o VDiv(Rest(g_face), Rest(vpr_face))

\* The hires grid built without the refinement factor.
hires_norm_coarse(nr, hires_fac) == linspace(Zero, One, nr)

\* jnp.linspace(0, 1, nr * hires_fac)
hires_norm(nr, hires_fac) == linspace(Zero, One, nr * hires_fac)

\* jnp.zeros(len(r_face))
circular_delta_face(r_face) == zeros(Len(r_face))

\* The grids both builders lay out from the mesh: cells and faces, and the
\* high resolution grid, normalized and multiplied by rmax.
grids_on_mesh(dr_norm, mesh, rmax, r_hires_norm) ==
    [dr_norm |-> dr_norm,
     mesh |-> mesh,
     rmax |-> rmax,
     r_face_norm |-> mesh.face_centers,
     r_norm |-> mesh.cell_centers,
     dr |-> Mul(dr_norm, rmax),
     r_face |-> SMul(rmax, mesh.face_centers),
     r |-> SMul(rmax, mesh.cell_centers),
     r_hires_norm |-> r_hires_norm,
     r_hires |-> SMul(rmax, r_hires_norm)]

\* The mesh of nr cells of width dr_norm and the grids from it.
grids_of_width(nr, dr_norm, rmax, hires_fac) ==
    grids_on_mesh(dr_norm, Grid1D_construct(nr, dr_norm), rmax,
                  hires_norm(nr, hires_fac))

\* build_circular_geometry, the grids: dr_norm = 1 / nr, rmax = Rmin.
circular_grids(nr, Rmin, hires_fac) ==
    grids_of_width(nr, Div(One, Int2Num(nr)), Rmin, hires_fac)

\* build_circular_geometry, the elongation, volume and area on the grids.
circular_shapes(grids, kappa_param, Rmaj) ==
    LET kappa == elongation_profile(grids.r_norm, kappa_param)
        kappa_face == elongation_profile(grids.r_face_norm, kappa_param)
        kappa_hires == elongation_profile(grids.r_hires_norm, kappa_param)
    IN  [kappa |-> kappa,
         kappa_face |-> kappa_face,
         kappa_hires |-> kappa_hires,
         volume |-> torus_volume(Rmaj, grids.r, kappa),
         volume_face |-> torus_volume(Rmaj, grids.r_face, kappa_face),
         volume_hires |-> torus_volume(Rmaj, grids.r_hires, kappa_hires),
         area |-> torus_area(grids.r, kappa),
         area_face |-> torus_area(grids.r_face, kappa_face),
         area_hires |-> torus_area(grids.r_hires, kappa_hires)]

\* build_circular_geometry, the derivatives of volume and area on the
\* grids.
circular_derivatives(grids, shapes, kappa_param, Rmaj) ==
    [vpr |-> circular_vpr(Rmaj, grids.r, shapes.kappa, shapes.volume,
                          kappa_param, grids.rmax),
     vpr_face |-> circular_vpr(Rmaj, grids.r_face, shapes.kappa_face,
                               shapes.volume_face, kappa_param, grids.rmax),
     vpr_hires |-> circular_vpr(Rmaj, grids.r_hires, shapes.kappa_hires,
                                shapes.volume_hires, kappa_param,
                                grids.rmax),
     spr_cell |-> circular_spr(grids.r, shapes.kappa, shapes.area,
                               kappa_param, grids.rmax),
     spr_face |-> circular_spr(grids.r_face, shapes.kappa_face,
                               shapes.area_face, kappa_param, grids.rmax),
     spr_hires |-> circular_spr(grids.r_hires, shapes.kappa_hires,
                                shapes.area_hires, kappa_param, grids.rmax)]

\* build_circular_geometry, the remaining quantities and the return value.
CircularAnalyticalGeometry(grids, shapes, derivatives, Rmaj, B0) ==
    LET r == grids.r
        r_face == grids.r_face
        r_hires == grids.r_hires
        vpr == derivatives.vpr
        vpr_face == derivatives.vpr_face
        delta_face == circular_delta_face(r_face)
        g0 == vpr
        g0_face == vpr_face
        g1 == VSq(vpr)
        g1_face == VSq(vpr_face)
        g2 == SMul(Norm(16, 1, 4), VSq(r))
        g2_face == SMul(Norm(16, 1, 4), VSq(r_face))
        g3 == circular_g3(Rmaj, r)
        g3_face == circular_g3(Rmaj, r_face)
        g2g3_over_rho == circular_g2g3_over_rho(g2, g3, r)
        g2g3_over_rho_face ==
            <<SurdZero>> \o
            circular_g2g3_over_rho(Rest(g2_face), Rest(g3_face), Rest(r_face))
        J == ones(Len(r))
        J_face == ones(Len(r_face))
        F == SMul(Mul(Rmaj, B0), ones(Len(r)))
        F_face == SMul(Mul(Rmaj, B0), ones(Len(r_face)))
        Rout == SAdd(Rmaj, r)
        Rout_face == SAdd(Rmaj, r_face)
        Rin == SAdd(Rmaj, SMul(Int2Num(-1), r))
        Rin_face == SAdd(Rmaj, SMul(Int2Num(-1), r_face))
        g2_hires == SMul(Norm(16, 1, 4), VSq(r_hires))
        g3_hires == circular_g3(Rmaj, r_hires)
        g2g3_over_rho_hires ==
            <<SurdZero>> \o
            circular_g2g3_over_rho(Rest(g2_hires), Rest(g3_hires), Rest(r_hires))
        J_hires == ones(Len(r_hires))
        g1_over_vpr == VDiv(g1, vpr)
        g1_over_vpr2 == VDiv(g1, VSq(vpr))
        g0_over_vpr_face == ratio_face(One, g0_face, vpr_face)
        g1_over_vpr_face == ratio_face(Zero, g1_face, vpr_face)
        g1_over_vpr2_face == ratio_face(One, g1_face, VSq(vpr_face))
    IN  [status |-> "ok",
         geometry_type |-> 0,
         dr_norm |-> grids.dr_norm, dr |-> grids.dr, mesh |-> grids.mesh,
         rmax |-> grids.rmax,
         r_face_norm |-> grids.r_face_norm, r_norm |-> grids.r_norm,
         r_face |-> r_face, r |-> r,
         Rmaj |-> Rmaj, Rmin |-> grids.rmax, B0 |-> B0,
         volume |-> shapes.volume, volume_face |-> shapes.volume_face,
         area |-> shapes.area, area_face |-> shapes.area_face,
         vpr |-> vpr, vpr_face |-> vpr_face,
         spr_cell |-> derivatives.spr_cell,
         spr_face |-> derivatives.spr_face,
         delta_face |-> delta_face,
         g0 |-> g0, g0_face |-> g0_face, g1 |-> g1, g1_face |-> g1_face,
         g2 |-> g2, g2_face |-> g2_face, g3 |-> g3, g3_face |-> g3_face,
         g2g3_over_rho |-> g2g3_over_rho,
         g2g3_over_rho_face |-> g2g3_over_rho_face,
         g2g3_over_rho_hires |-> g2g3_over_rho_hires,
         g0_over_vpr_face |-> g0_over_vpr_face,
         g1_over_vpr |-> g1_over_vpr,
         g1_over_vpr_face |-> g1_over_vpr_face,
         g1_over_vpr2 |-> g1_over_vpr2,
         g1_over_vpr2_face |-> g1_over_vpr2_face,
         J |-> J, J_face |-> J_face, J_hires |-> J_hires,
         F |-> F, F_face |-> F_face,
         Rin |-> Rin, Rin_face |-> Rin_face,
         Rout |-> Rout, Rout_face |-> Rout_face,
         kappa |-> shapes.kappa, kappa_face |-> shapes.kappa_face,
         volume_hires |-> shapes.volume_hires,
         area_hires |-> shapes.area_hires,
         spr_hires |-> derivatives.spr_hires,
         r_hires_norm |-> grids.r_hires_norm, r_hires |-> r_hires,
         kappa_hires |-> shapes.kappa_hires,
         vpr_hires |-> derivatives.vpr_hires]

\* build_circular_geometry from the elongation, volume and area on.
circular_from_shapes(grids, shapes, kappa_param, Rmaj, B0) ==
    CircularAnalyticalGeometry(
        grids, shapes,
        circular_derivatives(grids, shapes, kappa_param, Rmaj), Rmaj, B0)

\* build_circular_geometry from the grids on.
circular_from_grids(grids, kappa_param, Rmaj, B0) ==
    circular_from_shapes(grids, circular_shapes(grids, kappa_param, Rmaj),
                         kappa_param, Rmaj, B0)

\* build_circular_geometry
build_circular_geometry(nr, kappa_param, Rmaj, Rmin, B0, hires_fac) ==
    circular_from_grids(circular_grids(nr, Rmin, hires_fac), kappa_param,
                        Rmaj, B0)

----------------------------------------------------------------------------
(* Standard (equilibrium-derived) builder                                  *)

\* An optional value: None or a number.
None == [tag |-> "None"]

Some(x) == [tag |-> "value", v |-> x]

\* constants.CONSTANTS.mu0 = 4 * pi * 1e-7
mu0 == Norm(4, 10000000, 1)

\* 16 * constants.CONSTANTS.mu0 * jnp.pi**4
flux_constant == Mul(Mul(Int2Num(16), mu0), PiPow(4))

\* 1e6: amperes per megaampere
MA == Int2Num(1000000)

Last(v) == v[Len(v)]

\* f with the fields of g added
Extend(f, g) ==
    [k \in (DOMAIN f) \cup (DOMAIN g) |-> IF k \in DOMAIN g THEN g[k] ELSE f[k]]

\* The interpolation with the step delta not divided by the knot spacing.
interp_point_undivided(x, xp, fp) ==
    LET n == Len(xp)
        cnt == Cardinality({k \in 1..n : Le(xp[k], x)})
        i == IF cnt < 1 THEN 1 ELSE IF cnt > n - 1 THEN n - 1 ELSE cnt
        df == Sub(fp[i + 1], fp[i])
        dx == Sub(xp[i + 1], xp[i])
        delta == Sub(x, xp[i])
        f == IF dx = Zero THEN fp[i] ELSE Add(fp[i], Mul(delta, df))
    IN  IF Lt(x, xp[1]) THEN fp[1]
        ELSE IF Lt(xp[n], x) THEN fp[n]
        ELSE f

\* jnp.interp(x, xp, fp) at one point, for xp sorted in increasing order:
\* linear between the two neighbouring knots, fp[0] below xp[0] and fp[-1]
\* above xp[-1].
interp_point(x, xp, fp) ==
    LET n == Len(xp)
        cnt == Cardinality({k \in 1..n : Le(xp[k], x)})
        i == IF cnt < 1 THEN 1 ELSE IF cnt > n - 1 THEN n - 1 ELSE cnt
        df == Sub(fp[i + 1], fp[i])
        dx == Sub(xp[i + 1], xp[i])
        delta == Sub(x, xp[i])
        f == IF dx = Zero THEN fp[i]
             ELSE Add(fp[i], Mul(Div(delta, dx), df))
    IN  IF Lt(x, xp[1]) THEN fp[1]
        ELSE IF Lt(xp[n], x) THEN fp[n]
        ELSE f

\* jnp.interp(x, xp, fp) for an array x of query points
interp(x, xp, fp) == [k \in 1..Len(x) |-> interp_point(x[k], xp, fp)]

\* math_utils.gradient(y, x): finite differences of y against the (possibly
\* non-uniform) coordinate x, second order inside (the three-point formula
\* a*y[i-1] + b*y[i] + c*y[i+1]) and one-sided at the two ends.
gradient(y, x) ==
    LET n == Len(y)
    IN  [i \in 1..n |->
          IF i = 1 THEN Div(Sub(y[2], y[1]), Sub(x[2], x[1]))
          ELSE IF i = n THEN Div(Sub(y[n], y[n - 1]), Sub(x[n], x[n - 1]))
          ELSE LET dx1 == Sub(x[i], x[i - 1])
                   dx2 == Sub(x[i + 1], x[i])
                   a == Neg(Div(dx2, Mul(dx1, Add(dx1, dx2))))
                   b == Div(Sub(dx2, dx1), Mul(dx1, dx2))
                   c == Div(dx1, Mul(dx2, Add(dx1, dx2)))
               IN  Add(Add(Mul(a, y[i - 1]), Mul(b, y[i])), Mul(c, y[i + 1]))]

\* The left rectangle rule in place of the trapezoidal rule.
RECURSIVE trapezoid_left_rule(_, _, _)
trapezoid_left_rule(y, x, i) ==
    IF i <= 1 THEN Zero
    ELSE Add(trapezoid_left_rule(y, x, i - 1),
             Mul(Sub(x[i], x[i - 1]), y[i - 1]))

\* jax.scipy.integrate.trapezoid(y[:i], x[:i])
RECURSIVE trapezoid(_, _, _)
trapezoid(y, x, i) ==
    IF i <= 1 THEN Zero
    ELSE Add(trapezoid(y, x, i - 1),
             Mul(Half, Mul(Sub(x[i], x[i - 1]), Add(y[i], y[i - 1]))))

\* The finite difference kept on the axis.
set_axis_kept(v) == v

\* v.at[0].set(0)
set_axis_zero(v) == [i \in 1..Len(v) |-> IF i = 1 THEN Zero ELSE v[i]]

\* g3 = <1/R**2>: C2[1:] / C1[1:] with 1 / Rin[0]**2 on the axis
standard_g3(C1, C2, Rin) ==
    <<Inv(Sq(Rin[1]))>> \o VDiv(Rest(C2), Rest(C1))

\* g2 * g3 / rho on the axis as well.
standard_g2g3_over_rho_divide_all(g2, g3, rho) == VDiv(VMul(g2, g3), rho)

\* g2[1:] * g3[1:] / rho[1:] with 0 on the axis
standard_g2g3_over_rho(g2, g3, rho) ==
    <<Zero>> \o VDiv(VMul(Rest(g2), Rest(g3)), Rest(rho))

\* Ip[1:] * (16 mu0 pi^4) / (g2g3_over_rho[1:] * Rmaj * RBPhi[1:]), 0 on axis
standard_dpsidrho(Ip, g2g3_over_rho, Rmaj, RBPhi) ==
    <<Zero>> \o
    VDiv(SMul(flux_constant, Rest(Ip)),
         VMul(SMul(Rmaj, Rest(g2g3_over_rho)), Rest(RBPhi)))

\* jnp.interp raises ValueError unless xp and fp have the same length.
interpRaises(xp, fp) == Len(xp) # Len(fp)

\* One iteration of the loop that writes every entry from the entries
\* written before it (a prefix sum).
psi_from_Ip_iteration_prefix_sum(psi_from_Ip, i, dpsidrho, rho) ==
    [psi_from_Ip EXCEPT
       ![i] = IF i = 1 THEN Zero
              ELSE Add(psi_from_Ip[i - 1],
                       Mul(Half, Mul(Sub(rho[i], rho[i - 1]),
                                     Add(dpsidrho[i], dpsidrho[i - 1]))))]

\* One iteration of the loop over i in range(1, len(psi) + 1):
\* psi_from_Ip.at[i - 1].set(trapezoid(dpsidrho[:i], rho[:i]))
psi_from_Ip_iteration(psi_from_Ip, i, dpsidrho, rho) ==
    [psi_from_Ip EXCEPT ![i] = trapezoid(dpsidrho, rho, i)]

\* The loop, its iterations taken in the given order, from psi_from_Ip.
RECURSIVE psi_from_Ip_loop(_, _, _, _)
psi_from_Ip_loop(psi_from_Ip, order, dpsidrho, rho) ==
    IF order = <<>> THEN psi_from_Ip
    ELSE psi_from_Ip_loop(
             psi_from_Ip_iteration(psi_from_Ip, Head(order), dpsidrho, rho),
             Tail(order), dpsidrho, rho)

\* The loop's result left as it is.
psi_from_Ip_edge_skipped(psi_from_Ip, Ip, rho, g2g3_over_rho, Rmaj, RBPhi) ==
    psi_from_Ip

\* The assignment after the loop: the last entry becomes the entry before
\* it plus the one-sided step over the last two samples.
psi_from_Ip_edge(psi_from_Ip, Ip, rho, g2g3_over_rho, Rmaj, RBPhi) ==
    LET n == Len(psi_from_Ip)
    IN  [psi_from_Ip EXCEPT
           ![n] = Add(psi_from_Ip[n - 1],
                      Mul(Div(Mul(flux_constant, Last(Ip)),
                              Mul(Mul(Last(g2g3_over_rho), Rmaj), Last(RBPhi))),
                          Sub(Last(rho), rho[Len(rho) - 1])))]

\* range(1, len(psi) + 1)
loop_range(n) == [i \in 1..n |-> i]

\* psi_from_Ip on the native grid: zeros(len(psi)), the loop in the order
\* given, then the assignment of the last entry.
reconstruct_psi_from_Ip_in_order(order, psi, Ip, rho, g2g3_over_rho, Rmaj, RBPhi, dpsidrho) ==
    psi_from_Ip_edge(psi_from_Ip_loop(zeros(Len(psi)), order, dpsidrho, rho),
                     Ip, rho, g2g3_over_rho, Rmaj, RBPhi)

\* The running trapezoidal integral of dpsidrho, its last entry replaced by
\* the one-sided step from the entry before it.
reconstruct_psi_from_Ip(psi, Ip, rho, g2g3_over_rho, Rmaj, RBPhi, dpsidrho) ==
    reconstruct_psi_from_Ip_in_order(loop_range(Len(psi)), psi, Ip, rho,
                                     g2g3_over_rho, Rmaj, RBPhi, dpsidrho)

\* The normalization reporting the edge current back in both branches.
Ip_normalization_always_reports(config_Ip, Ip) ==
    IF config_Ip # None
    THEN [Ip_scale_factor |-> Div(Mul(config_Ip.v, MA), Last(Ip)),
          rescaled |-> TRUE,
          updated_config_Ip |-> Some(Div(Last(Ip), MA))]
    ELSE [Ip_scale_factor |-> One,
          rescaled |-> FALSE,
          updated_config_Ip |-> Some(Div(Last(Ip), MA))]

\* The normalization without the conversion between MA and A.
Ip_normalization_no_unit(config_Ip, Ip) ==
    IF config_Ip # None
    THEN [Ip_scale_factor |-> Div(config_Ip.v, Last(Ip)),
          rescaled |-> TRUE,
          updated_config_Ip |-> None]
    ELSE [Ip_scale_factor |-> One,
          rescaled |-> FALSE,
          updated_config_Ip |-> Some(Last(Ip))]

\* The current normalization: conform to config_Ip, or report the
\* equilibrium's edge current (in MA) back.
Ip_normalization(config_Ip, Ip) ==
    IF config_Ip # None
    THEN [Ip_scale_factor |-> Div(Mul(config_Ip.v, MA), Last(Ip)),
          rescaled |-> TRUE,
          updated_config_Ip |-> None]
    ELSE [Ip_scale_factor |-> One,
          rescaled |-> FALSE,
          updated_config_Ip |-> Some(Div(Last(Ip), MA))]

\* delta_face = 0.5 * (delta_upper_face + delta_lower_face)
standard_delta_face(delta_upper_face, delta_lower_face) ==
    SMul(Half, VAdd(delta_upper_face, delta_lower_face))

\* _build_standard_geometry, the flux surface integrals and the metric
\* coefficients derived from them.
standard_metric(in) ==
    LET C1 == in.int_Jdchi
        C2 == VMul(in.flux_norm_1_over_R2, C1)
        C3 == VMul(in.flux_norm_Bp2, C1)
        C4 == VMul(in.flux_norm_dpsi2, C1)
    IN  [g0 |-> VMul(in.flux_norm_dpsi, C1),
         g1 |-> VMul(C1, C4),
         g2 |-> VMul(C1, C3),
         g3 |-> standard_g3(C1, C2, in.Rin)]

\* The normalization leaving the current density as it is.
standard_normalized_jtot_unscaled(in, norm, psi_from_Ip) ==
    [psi |-> in.psi,
     psi_from_Ip |-> IF norm.rescaled
                     THEN SMul(norm.Ip_scale_factor, psi_from_Ip)
                     ELSE psi_from_Ip,
     jtot |-> SMul(Mul(Norm(2, 1, 1), in.Rmaj), gradient(in.Ip, in.volume))]

\* The normalization applied to the input psi as well.
standard_normalized_psi_too(in, norm, psi_from_Ip) ==
    [psi |-> IF norm.rescaled THEN SMul(norm.Ip_scale_factor, in.psi)
             ELSE in.psi,
     psi_from_Ip |-> IF norm.rescaled
                     THEN SMul(norm.Ip_scale_factor, psi_from_Ip)
                     ELSE psi_from_Ip,
     jtot |-> SMul(norm.Ip_scale_factor,
                   SMul(Mul(Norm(2, 1, 1), in.Rmaj),
                        gradient(in.Ip, in.volume)))]

\* _build_standard_geometry, what the normalization norm does to the
\* profiles: psi_from_Ip *= Ip_scale_factor under config_Ip only, jtot is
\* 2 pi Rmaj gradient(Ip, volume) * Ip_scale_factor in both branches, and
\* the input psi is not touched.
standard_normalized(in, norm, psi_from_Ip) ==
    [psi |-> in.psi,
     psi_from_Ip |-> IF norm.rescaled
                     THEN SMul(norm.Ip_scale_factor, psi_from_Ip)
                     ELSE psi_from_Ip,
     jtot |-> SMul(norm.Ip_scale_factor,
                   SMul(Mul(Norm(2, 1, 1), in.Rmaj),
                        gradient(in.Ip, in.volume)))]

\* _build_standard_geometry, the native values that follow the metric
\* coefficients: the flux reconstructed from Ip and rescaled, the
\* derivatives of volume and area, the current density.
standard_native_from_metric(in, metric) ==
    LET g2g3_over_rho ==
            standard_g2g3_over_rho(metric.g2, metric.g3, in.rho)
        dpsidrho ==
            standard_dpsidrho(in.Ip, g2g3_over_rho, in.Rmaj, in.RBPhi)
        psi_from_Ip ==
            reconstruct_psi_from_Ip(in.psi, in.Ip, in.rho, g2g3_over_rho,
                                    in.Rmaj, in.RBPhi, dpsidrho)
        norm == Ip_normalization(in.config_Ip, in.Ip)
    IN  Extend([Ip_scale_factor |-> norm.Ip_scale_factor,
                rescaled |-> norm.rescaled,
                dpsidrho |-> dpsidrho,
                psi_from_Ip_unscaled |-> psi_from_Ip,
                vpr |-> set_axis_zero(gradient(in.volume, in.rho)),
                spr |-> set_axis_zero(gradient(in.area, in.rho)),
                g0 |-> metric.g0, g1 |-> metric.g1, g2 |-> metric.g2,
                g3 |-> metric.g3,
                g2g3_over_rho |-> g2g3_over_rho],
               standard_normalized(in, norm, psi_from_Ip))

\* _build_standard_geometry, the values it holds on the native grid before
\* the interpolation.
standard_native(in) ==
    standard_native_from_metric(in, standard_metric(in))

\* _build_standard_geometry, the grids it interpolates onto:
\* dr_norm = rhon[-1] / nr, rmax = rho[-1].
standard_grids(in) ==
    grids_of_width(in.nr, Div(Last(in.rhon), Int2Num(in.nr)), Last(in.rho),
                   in.hires_fac)

\* _build_standard_geometry, the interpolations of the native values onto
\* the grids, with the quantities derived from them on the way.
standard_interpolated(in, native, grids) ==
    LET rhon == in.rhon
        r_face_norm == grids.r_face_norm
        r_norm == grids.r_norm
        r_hires_norm == grids.r_hires_norm
        delta_upper_face == interp(r_face_norm, rhon, in.delta_upper_face)
        delta_lower_face == interp(r_face_norm, rhon, in.delta_lower_face)
        F_face == interp(r_face_norm, rhon, in.RBPhi)
        F == interp(r_norm, rhon, in.RBPhi)
    IN  [vpr_face |-> interp(r_face_norm, rhon, native.vpr),
         vpr_hires |-> interp(r_hires_norm, rhon, native.vpr),
         vpr |-> interp(r_norm, rhon, native.vpr),
         spr_face |-> interp(r_face_norm, rhon, native.spr),
         spr_cell |-> interp(r_norm, rhon, native.spr),
         spr_hires |-> interp(r_hires_norm, rhon, native.spr),
         delta_upper_face |-> delta_upper_face,
         delta_lower_face |-> delta_lower_face,
         delta_face |-> standard_delta_face(delta_upper_face,
                                            delta_lower_face),
         F_face |-> F_face,
         J_hires |-> interp(r_hires_norm, rhon, in.RBPhi),
         F |-> F,
         J |-> SDiv(SDiv(F, in.Rmaj), in.B),
         J_face |-> SDiv(SDiv(F_face, in.Rmaj), in.B),
         psi |-> interp(r_norm, rhon, native.psi),
         psi_from_Ip |-> interp(r_norm, rhon, native.psi_from_Ip),
         jtot_face |-> interp(r_face_norm, rhon, native.jtot),
         jtot |-> interp(r_norm, rhon, native.jtot),
         Rin_face |-> interp(r_face_norm, rhon, in.Rin),
         Rin |-> interp(r_norm, rhon, in.Rin),
         Rout_face |-> interp(r_face_norm, rhon, in.Rout),
         Rout |-> interp(r_norm, rhon, in.Rout),
         g0_face |-> interp(r_face_norm, rhon, native.g0),
         g0 |-> interp(r_norm, rhon, native.g0),
         g1_face |-> interp(r_face_norm, rhon, native.g1),
         g1 |-> interp(r_norm, rhon, native.g1),
         g2_face |-> interp(r_face_norm, rhon, native.g2),
         g2 |-> interp(r_norm, rhon, native.g2),
         g3_face |-> interp(r_face_norm, rhon, native.g3),
         g3 |-> interp(r_norm, rhon, native.g3),
         g2g3_over_rho_face |->
             interp(r_face_norm, rhon, native.g2g3_over_rho),
         g2g3_over_rho_hires |->
             interp(r_hires_norm, rhon, native.g2g3_over_rho),
         g2g3_over_rho |-> interp(r_norm, rhon, native.g2g3_over_rho),
         volume_face |-> interp(r_face_norm, rhon, in.volume),
         volume_hires |-> interp(r_hires_norm, rhon, in.volume),
         volume |-> interp(r_norm, rhon, in.volume),
         area_face |-> interp(r_face_norm, rhon, in.area),
         area_hires |-> interp(r_hires_norm, rhon, in.area),
         area |-> interp(r_norm, rhon, in.area)]

\* _build_standard_geometry, the repeated terms of the transport equations
\* from the interpolated values.
standard_ratios(on_grid) ==
    [g0_over_vpr_face |-> ratio_face(One, on_grid.g0_face, on_grid.vpr_face),
     g1_over_vpr |-> VDiv(on_grid.g1, on_grid.vpr),
     g1_over_vpr2 |-> VDiv(on_grid.g1, VSq(on_grid.vpr)),
     g1_over_vpr_face |->
         ratio_face(Zero, on_grid.g1_face, on_grid.vpr_face),
     g1_over_vpr2_face |->
         ratio_face(One, on_grid.g1_face, VSq(on_grid.vpr_face))]

\* _build_standard_geometry, its return value: the geometry, the reported
\* current, and (as locals) the values on the native grid.
StandardGeometry(in, native, grids, on_grid, ratios) ==
    [status |-> "ok",
     updated_config_Ip |->
         Ip_normalization(in.config_Ip, in.Ip).updated_config_Ip,
     locals |-> native,
     geo |->
       [geometry_type |-> 1,
        dr_norm |-> grids.dr_norm, dr |-> grids.dr, mesh |-> grids.mesh,
        rmax |-> grids.rmax,
        r_face_norm |-> grids.r_face_norm, r_norm |-> grids.r_norm,
        r_face |-> grids.r_face, r |-> grids.r,
        Rmaj |-> in.Rmaj, Rmin |-> in.Rmin, B0 |-> in.B,
        volume |-> on_grid.volume, volume_face |-> on_grid.volume_face,
        area |-> on_grid.area, area_face |-> on_grid.area_face,
        vpr |-> on_grid.vpr, vpr_face |-> on_grid.vpr_face,
        spr_cell |-> on_grid.spr_cell, spr_face |-> on_grid.spr_face,
        delta_face |-> on_grid.delta_face,
        g0 |-> on_grid.g0, g0_face |-> on_grid.g0_face,
        g1 |-> on_grid.g1, g1_face |-> on_grid.g1_face,
        g2 |-> on_grid.g2, g2_face |-> on_grid.g2_face,
        g3 |-> on_grid.g3, g3_face |-> on_grid.g3_face,
        g2g3_over_rho |-> on_grid.g2g3_over_rho,
        g2g3_over_rho_face |-> on_grid.g2g3_over_rho_face,
        g2g3_over_rho_hires |-> on_grid.g2g3_over_rho_hires,
        g0_over_vpr_face |-> ratios.g0_over_vpr_face,
        g1_over_vpr |-> ratios.g1_over_vpr,
        g1_over_vpr_face |-> ratios.g1_over_vpr_face,
        g1_over_vpr2 |-> ratios.g1_over_vpr2,
        g1_over_vpr2_face |-> ratios.g1_over_vpr2_face,
        J |-> on_grid.J, J_face |-> on_grid.J_face,
        J_hires |-> on_grid.J_hires,
        F |-> on_grid.F, F_face |-> on_grid.F_face,
        Rin |-> on_grid.Rin, Rin_face |-> on_grid.Rin_face,
        Rout |-> on_grid.Rout, Rout_face |-> on_grid.Rout_face,
        psi |-> on_grid.psi, psi_from_Ip |-> on_grid.psi_from_Ip,
        jtot |-> on_grid.jtot, jtot_face |-> on_grid.jtot_face,
        delta_upper_face |-> on_grid.delta_upper_face,
        delta_lower_face |-> on_grid.delta_lower_face,
        volume_hires |-> on_grid.volume_hires,
        area_hires |-> on_grid.area_hires,
        spr_hires |-> on_grid.spr_hires,
        r_hires_norm |-> grids.r_hires_norm, r_hires |-> grids.r_hires,
        vpr_hires |-> on_grid.vpr_hires]]

\* _build_standard_geometry from the interpolated values on.
standard_from_interpolated(in, native, grids, on_grid) ==
    StandardGeometry(in, native, grids, on_grid, standard_ratios(on_grid))

\* _build_standard_geometry from the native values and the grids on.
standard_from_native(in, native, grids) ==
    standard_from_interpolated(in, native, grids,
                               standard_interpolated(in, native, grids))

\* _build_standard_geometry; in holds every keyword argument.  The result
\* carries the geometry, the reported current, and (as locals) the values
\* the function holds on the native grid before the interpolation.  The
\* function checks nothing itself: the one failure modelled is the
\* ValueError of jnp.interp for a profile whose length differs from rhon's
\* (psi, and psi_from_Ip which takes its length from psi).
build_standard_geometry(in) ==
    IF interpRaises(in.rhon, in.psi) THEN [status |-> "ValueError"]
    ELSE standard_from_native(in, standard_native(in), standard_grids(in))

----------------------------------------------------------------------------
(* The two entry points of the standard builder and the caller's           *)
(* configuration object                                                    *)

\* A path is the sequence of its components and separators.
DefaultGeometryDir ==
    <<"torax", "/", "data", "/", "third_party", "/", "geo">>

\* os.path.join(a, b): an absolute b discards a; otherwise a and b with one
\* separator between them unless a is empty or ends in one.
os_path_join(a, b) ==
    IF b # <<>> /\ b[1] = "/" THEN b
    ELSE IF a = <<>> \/ a[Len(a)] = "/" THEN a \o b
    ELSE a \o <<"/">> \o b

\* The directory with the environment variable taking precedence over the
\* argument.
resolve_geometry_dir_env_first(geometry_dir, environ) ==
    IF "TORAX_GEOMETRY_DIR" \in DOMAIN environ
    THEN environ["TORAX_GEOMETRY_DIR"]
    ELSE IF geometry_dir # None THEN geometry_dir.v
    ELSE DefaultGeometryDir

\* The directory of the CHEASE file: the argument unless it is None, then
\* os.environ['TORAX_GEOMETRY_DIR'] if it is set, then the default.
resolve_geometry_dir(geometry_dir, environ) ==
    IF geometry_dir = None
    THEN IF "TORAX_GEOMETRY_DIR" \in DOMAIN environ
         THEN environ["TORAX_GEOMETRY_DIR"]
         ELSE DefaultGeometryDir
    ELSE geometry_dir.v

\* A time-dependent parameter {t: value, ...} as its times and values.
Schedule(t, v) == [t |-> t, v |-> v]

IsSchedule(x) == "t" \in DOMAIN x

\* runtime_params_slice.build_dynamic_runtime_params_slice(runtime_params)
\* .profile_conditions.Ip: the value of Ip at t_initial, a time-dependent Ip
\* interpolated linearly in time.
dynamic_slice_Ip(params) ==
    LET Ip == params.profile_conditions.Ip
    IN  IF IsSchedule(Ip)
        THEN interp_point(params.numerics.t_initial, Ip.t, Ip.v)
        ELSE Ip

\* config_Ip = slice.profile_conditions.Ip if Ip_from_parameters else None
select_config_Ip(params, Ip_from_parameters) ==
    IF Ip_from_parameters THEN Some(dynamic_slice_Ip(params)) ELSE None

\* The assignment made whatever the builder reports.
write_back_always(params, updated_Ip) ==
    [runtime_params |->
         [params EXCEPT
            !.profile_conditions.Ip =
                IF updated_Ip # None THEN updated_Ip.v ELSE None],
     assigned |-> <<"profile_conditions.Ip">>]

\* The configuration left as it was whatever the builder reports.
write_back_never(params, updated_Ip) ==
    [runtime_params |-> params, assigned |-> <<>>]

\* if updated_Ip is not None: runtime_params.profile_conditions.Ip =
\* updated_Ip.  The configuration after the call and the attributes assigned.
write_back(params, updated_Ip) ==
    IF updated_Ip # None
    THEN [runtime_params |->
              [params EXCEPT !.profile_conditions.Ip = updated_Ip.v],
          assigned |-> <<"profile_conditions.Ip">>]
    ELSE [runtime_params |-> params, assigned |-> <<>>]

\* The keyword arguments the entry points pass to
\* _build_standard_geometry.
standard_args(params, profiles, nr, hires_fac, Ip_from_parameters) ==
    Extend(profiles,
           [config_Ip |-> select_config_Ip(params, Ip_from_parameters),
            nr |-> nr, hires_fac |-> hires_fac])

\* What an entry point returns and leaves in the configuration once
\* _build_standard_geometry has returned built for the arguments in.  An
\* error of the builder propagates before anything is assigned.
write_back_built(params, in, built) ==
    IF built.status # "ok"
    THEN [status |-> built.status, standard_args |-> in,
          runtime_params |-> params, assigned |-> <<>>]
    ELSE Extend([status |-> "ok", geo |-> built.geo,
                 locals |-> built.locals, standard_args |-> in,
                 updated_Ip |-> built.updated_config_Ip],
                write_back(params, built.updated_config_Ip))

\* The call of _build_standard_geometry on the arguments in and the
\* write-back.
build_and_write_back_args(params, in) ==
    write_back_built(params, in, build_standard_geometry(in))

\* The part the two entry points share: the call of
\* _build_standard_geometry on the profiles and the write-back.
build_and_write_back(params, profiles, nr, hires_fac, Ip_from_parameters) ==
    build_and_write_back_args(
        params,
        standard_args(params, profiles, nr, hires_fac, Ip_from_parameters))

\* build_geometry
build_geometry(params, profiles, nr, hires_fac, Ip_from_parameters) ==
    build_and_write_back(params, profiles, nr, hires_fac,
                         Ip_from_parameters)

\* The unnormalization of the CHEASE fields with Rmaj and B0.
unnormalize_chease(chease_data, Rmaj, Rmin, B0) ==
    LET psiunnormfactor == Mul(Mul(Mul(Sq(Rmaj), B0), Int2Num(2)), PiPow(1))
        four_pi2 == Norm(4, 1, 2)
    IN  [Rmaj |-> Rmaj, Rmin |-> Rmin, B |-> B0,
         psi |-> SMul(psiunnormfactor, chease_data["PSIchease=psi/2pi"]),
         Ip |-> SMul(B0, SMul(Rmaj, SDiv(chease_data["Ipprofile"], mu0))),
         rho |-> SMul(Rmaj, chease_data["RHO_TOR=sqrt(Phi/pi/B0)"]),
         rhon |-> chease_data["RHO_TOR_NORM"],
         Rin |-> SMul(Rmaj, chease_data["R_INBOARD"]),
         Rout |-> SMul(Rmaj, chease_data["R_OUTBOARD"]),
         RBPhi |-> SMul(B0, SMul(Rmaj, chease_data["T=RBphi"])),
         int_Jdchi |->
             SDiv(SMul(Rmaj, chease_data["Int(Rdlp/|grad(psi)|)=Int(Jdchi)"]),
                  B0),
         flux_norm_1_over_R2 |-> SDiv(chease_data["<1/R**2>"], Sq(Rmaj)),
         flux_norm_Bp2 |->
             SMul(four_pi2, SMul(Sq(B0), chease_data["<Bp**2>"])),
         flux_norm_dpsi |->
             SMul(Norm(2, 1, 1),
                  SMul(B0, SMul(Rmaj, chease_data["<|grad(psi)|>"]))),
         flux_norm_dpsi2 |->
             SMul(four_pi2,
                  SMul(Sq(Mul(Rmaj, B0)), chease_data["<|grad(psi)|**2>"])),
         delta_upper_face |-> chease_data["delta_upper"],
         delta_lower_face |-> chease_data["delta_bottom"],
         volume |-> SMul(Mul(Sq(Rmaj), Rmaj), chease_data["VOLUMEprofile"]),
         area |-> SMul(Sq(Rmaj), chease_data["areaprofile"])]

\* build_geometry_from_chease; chease_data holds the fields that
\* geometry_loader.initialize_CHEASE_dict reads from the file at file_path.
build_geometry_from_chease(params, geometry_dir, geometry_file, nr, Rmaj, Rmin, B0, hires_fac, Ip_from_parameters, environ, chease_data) ==
    LET file_path ==
            os_path_join(resolve_geometry_dir(geometry_dir, environ),
                         geometry_file)
    IN  Extend(build_and_write_back(
                   params,
                   unnormalize_chease(chease_data, Rmaj, Rmin, B0),
                   nr, hires_fac, Ip_from_parameters),
               [file_path |-> file_path])

----------------------------------------------------------------------------
(* Inputs                                                                  *)

NxSet == (-2)..MaxNx

DxSet == {Rat(n, d) : n \in (-1)..MaxDxNum, d \in 1..MaxDxDen}

FaceVals == {Int2Num(k) : k \in (-1)..MaxFaceVal}

FaceSet == UNION {[1..k -> FaceVals] : k \in 0..MaxFaceLen}

SlopeSet == {Int2Num(k) : k \in (-1)..MaxSlope}

NrSet == 1..MaxNr

HiresFacSet == 1..MaxHiresFac

\* Elongations in steps of 1/2, from -1 (any kappa is accepted).
KappaSet == {Rat(k, 2) : k \in (-2)..MaxKappaNum}

\* Major and minor radius with 0 < Rmin < Rmaj.
RadiiSet == {rr \in (2..MaxRmaj) \X (1..MaxRmaj) : rr[2] < rr[1]}

\* The default field, 5.3 T.
B0Set == {Rat(53, 10)}

NativeLenSet == 2..MaxNative

ShapeSet == 0..MaxShape

IpSlopeSet == 0..MaxIpSlope

\* config_Ip: absent, or a target current in MA.
ConfigIpSet == {None} \cup {Some(Int2Num(k)) : k \in 0..MaxConfigIp}

\* A family of equilibria on a native grid of n points, rhon[i] = i/(n-1):
\* the axis is at index 0, rho = Rmin * rhon, Ip[i] = ipk*i + v*(i \div 2)
\* quarters of a megaampere, and v bends the other profiles away from their
\* simplest shape.
NativeProfiles(n, v, ipk) ==
    LET Rmaj == Int2Num(3)
        Rmin == Int2Num(2)
        B == Int2Num(2)
        idx == [j \in 1..n |-> j - 1]
        rhon == [j \in 1..n |-> Rat(idx[j], n - 1)]
        rho == SMul(Rmin, rhon)
    IN  [Rmaj |-> Rmaj, Rmin |-> Rmin, B |-> B,
         rhon |-> rhon, rho |-> rho,
         psi |-> [j \in 1..n |-> Int2Num(v + idx[j] * idx[j])],
         Ip |-> [j \in 1..n |->
                   Mul(Int2Num(ipk * idx[j] + v * (idx[j] \div 2)),
                       Div(MA, Int2Num(4)))],
         Rin |-> SAdd(Rmaj, SMul(Int2Num(-1), rho)),
         Rout |-> SAdd(Rmaj, rho),
         RBPhi |-> [j \in 1..n |-> Mul(Mul(Rmaj, B), Int2Num(1 + v * idx[j]))],
         int_Jdchi |-> [j \in 1..n |->
                          Int2Num(IF j = 1 THEN v ELSE 1 + idx[j])],
         flux_norm_1_over_R2 |->
             [j \in 1..n |-> Div(Int2Num(1 + v * idx[j]), Sq(Rmaj))],
         flux_norm_Bp2 |-> [j \in 1..n |-> Int2Num(idx[j])],
         flux_norm_dpsi |-> [j \in 1..n |-> Int2Num(idx[j])],
         flux_norm_dpsi2 |-> [j \in 1..n |-> Int2Num(idx[j] * idx[j])],
         delta_upper_face |-> [j \in 1..n |-> Rat(idx[j], 10)],
         delta_lower_face |-> [j \in 1..n |-> Rat(idx[j] * (v + 1), 20)],
         volume |-> [j \in 1..n |-> Int2Num(idx[j] * idx[j] * (v + 1))],
         area |-> [j \in 1..n |-> Int2Num(idx[j] * idx[j])]]

\* An equilibrium with unit metric coefficients and a current linear in
\* rho: g3 = 1, g2 = rho, Rmaj = RBPhi = 1, Ip[i] = k * 250000 * rho[i].
UnitMetricProfiles(n, k) ==
    LET idx == [j \in 1..n |-> j - 1]
        rhon == [j \in 1..n |-> Rat(idx[j], n - 1)]
        rho == SMul(Half, rhon)
    IN  [Rmaj |-> One, Rmin |-> Half, B |-> One,
         rhon |-> rhon, rho |-> rho,
         psi |-> [j \in 1..n |-> Int2Num(idx[j])],
         Ip |-> SMul(Mul(Int2Num(k), Div(MA, Int2Num(4))), rho),
         Rin |-> SAdd(One, SMul(Int2Num(-1), rho)),
         Rout |-> SAdd(One, rho),
         RBPhi |-> ones(n),
         int_Jdchi |-> ones(n),
         flux_norm_1_over_R2 |-> ones(n),
         flux_norm_Bp2 |-> rho,
         flux_norm_dpsi |-> rho,
         flux_norm_dpsi2 |-> VSq(rho),
         delta_upper_face |-> zeros(n),
         delta_lower_face |-> zeros(n),
         volume |-> VSq(rho),
         area |-> VSq(rho)]

\* The keyword arguments of a call: profiles, config_Ip, nr and hires_fac.
Call(profiles, config_Ip, nr, hires_fac) ==
    Extend(profiles,
           [config_Ip |-> config_Ip, nr |-> nr, hires_fac |-> hires_fac])

\* rhon need not end at 1: ends of 1/2 and of 2.
RhonEndSet == {Half, Int2Num(2)}

\* An equilibrium whose rhon ends at e.
RescaledRhonProfiles(n, e) ==
    LET p == NativeProfiles(n, 0, 1)
    IN  Extend(p, [rhon |-> SMul(e, p.rhon)])

\* An equilibrium whose rhon has knot k moved onto the knot before it:
\* sorted but not strictly increasing.
RepeatedKnotProfiles(n, k) ==
    LET p == NativeProfiles(n, 0, 1)
    IN  Extend(p, [rhon |-> [j \in 1..n |->
                               IF j = k THEN p.rhon[k - 1] ELSE p.rhon[j]]])

\* An equilibrium whose psi has one sample more than rhon and the other
\* profiles.
LongPsiProfiles(n) ==
    LET p == NativeProfiles(n, 0, 1)
    IN  Extend(p, [psi |-> p.psi \o <<Zero>>])

\* The caller's configuration: a constant Ip of 1 MA or the schedule
\* {0: 5, 4: 15, 6: 12, 8: 12}, a starting time, and a field the builders
\* have no use for.
RuntimeParamsSet ==
    {[profile_conditions |-> [Ip |-> Ip, nbar |-> Rat(17, 20)],
      numerics |-> [t_initial |-> t_initial]] :
        Ip \in {One,
                Schedule(<<Zero, Int2Num(4), Int2Num(6), Int2Num(8)>>,
                         <<Int2Num(5), Int2Num(15), Int2Num(12),
                           Int2Num(12)>>)},
        t_initial \in {Zero, Int2Num(2)}}

\* No configuration object is in use.
NoRuntimeParams == [profile_conditions |-> None]

\* Profiles handed to build_geometry: equilibria on a native grid of three
\* points, and one whose psi is too long.
BuildGeometryProfiles ==
    {NativeProfiles(3, v, ipk) : v \in ShapeSet, ipk \in IpSlopeSet}
        \cup {LongPsiProfiles(3)}

GeometryDirSet == {None, Some(<<"geo_a">>), Some(<<"geo_b", "/">>)}

\* os.environ: without TORAX_GEOMETRY_DIR, or with it set.
EnvironSet ==
    {[k \in {} |-> <<>>], [TORAX_GEOMETRY_DIR |-> <<"env_geo">>]}

GeometryFileSet ==
    {<<"ITER_hybrid_citrin_equil_cheasedata.mat2cols">>,
     <<"/", "eq", "/", "chease.mat2cols">>}

\* The fields of a CHEASE file, in the file's normalized units, of the
\* equilibrium NativeProfiles(n, 0, ipk) for Rmaj = 3 and B0 = 2.
CheaseData(n, ipk) ==
    LET q == NativeProfiles(n, 0, ipk)
        by(v, c) == SDiv(v, c)
    IN  [k \in {"PSIchease=psi/2pi", "Ipprofile", "RHO_TOR=sqrt(Phi/pi/B0)",
                "RHO_TOR_NORM", "R_INBOARD", "R_OUTBOARD", "T=RBphi",
                "Int(Rdlp/|grad(psi)|)=Int(Jdchi)", "<1/R**2>", "<Bp**2>",
                "<|grad(psi)|>", "<|grad(psi)|**2>", "delta_upper",
                "delta_bottom", "VOLUMEprofile", "areaprofile"} |->
          CASE k = "PSIchease=psi/2pi" -> by(q.psi, Norm(36, 1, 1))
            [] k = "Ipprofile" -> by(q.Ip, Norm(15000000, 1, -1))
            [] k = "RHO_TOR=sqrt(Phi/pi/B0)" -> by(q.rho, Int2Num(3))
            [] k = "RHO_TOR_NORM" -> q.rhon
            [] k = "R_INBOARD" -> by(q.Rin, Int2Num(3))
            [] k = "R_OUTBOARD" -> by(q.Rout, Int2Num(3))
            [] k = "T=RBphi" -> by(q.RBPhi, Int2Num(6))
            [] k = "Int(Rdlp/|grad(psi)|)=Int(Jdchi)" ->
                   by(q.int_Jdchi, Rat(3, 2))
            [] k = "<1/R**2>" -> by(q.flux_norm_1_over_R2, Rat(1, 9))
            [] k = "<Bp**2>" -> by(q.flux_norm_Bp2, Norm(16, 1, 2))
            [] k = "<|grad(psi)|>" -> by(q.flux_norm_dpsi, Norm(12, 1, 1))
            [] k = "<|grad(psi)|**2>" ->
                   by(q.flux_norm_dpsi2, Norm(144, 1, 2))
            [] k = "delta_upper" -> q.delta_upper_face
            [] k = "delta_bottom" -> q.delta_lower_face
            [] k = "VOLUMEprofile" -> by(q.volume, Int2Num(27))
            [] k = "areaprofile" -> by(q.area, Int2Num(9))]

\* The file found at the path that is resolved.
CheaseFiles == {CheaseData(3, 2)}

\* f without the field k
Without(f, k) == [x \in (DOMAIN f) \ {k} |-> f[x]]

----------------------------------------------------------------------------
(* The state machine: a caller invokes one function at a time (pc names    *)
(* the call whose result is in ret) and then drops the result.             *)

Init ==
    /\ pc = "idle"
    /\ args = [op |-> "none"]
    /\ ret = [status |-> "none"]
    /\ runtime_params = NoRuntimeParams

CallGrid1DConstruct ==
    /\ pc = "idle"
    /\ \E nx \in NxSet, dx \in DxSet :
          /\ args' = [op |-> "Grid1D.construct", nx |-> nx, dx |-> dx]
          /\ ret' = Grid1D_construct(nx, dx)
    /\ pc' = "Grid1D.construct"
    /\ UNCHANGED runtime_params

CallFaceToCell ==
    /\ pc = "idle"
    /\ \E face \in FaceSet :
          /\ args' = [op |-> "face_to_cell", face |-> face]
          /\ ret' = [status |-> "ok", cell |-> face_to_cell(face)]
    /\ pc' = "face_to_cell"
    /\ UNCHANGED runtime_params

\* face_to_cell applied to a linear profile a + b*x sampled on the faces of
\* a constructed grid.
CallFaceToCellOnGrid ==
    /\ pc = "idle"
    /\ \E nx \in 1..MaxNx, dx \in {x \in DxSet : Lt(Zero, x)},
          a \in SlopeSet, b \in SlopeSet :
          LET mesh == Grid1D_construct(nx, dx)
              face == SAdd(a, SMul(b, mesh.face_centers))
          IN  /\ args' = [op |-> "face_to_cell", face |-> face, mesh |-> mesh,
                          a |-> a, b |-> b]
              /\ ret' = [status |-> "ok", cell |-> face_to_cell(face)]
    /\ pc' = "face_to_cell(grid)"
    /\ UNCHANGED runtime_params

CallBuildCircularGeometry ==
    /\ pc = "idle"
    /\ \E nr \in NrSet, kappa \in KappaSet, rr \in RadiiSet, B0 \in B0Set,
          hires_fac \in HiresFacSet :
          /\ args' = [op |-> "build_circular_geometry", nr |-> nr,
                      kappa |-> kappa, Rmaj |-> Int2Num(rr[1]),
                      Rmin |-> Int2Num(rr[2]), B0 |-> B0,
                      hires_fac |-> hires_fac]
          /\ ret' = build_circular_geometry(nr, kappa, Int2Num(rr[1]),
                                            Int2Num(rr[2]), B0, hires_fac)
    /\ pc' = "build_circular_geometry"
    /\ UNCHANGED runtime_params

\* The call of _build_standard_geometry with the keyword arguments in.
StandardCall(in) ==
    /\ args' = Extend(in, [op |-> "_build_standard_geometry"])
    /\ ret' = build_standard_geometry(in)

\* The calls of _build_standard_geometry: on the shaped equilibria with
\* every hires_fac and with every config_Ip (which bear on different
\* outputs), with unit metric coefficients, with rhon not ending at 1, with
\* a repeated knot, with psi too long.
StandardInputs ==
    {Call(NativeProfiles(n, v, ipk), None, nr, hires_fac) :
        n \in NativeLenSet, v \in ShapeSet, ipk \in IpSlopeSet,
        nr \in NrSet, hires_fac \in HiresFacSet}
    \cup {Call(NativeProfiles(n, v, ipk), config_Ip, nr, 1) :
        n \in NativeLenSet, v \in ShapeSet, ipk \in IpSlopeSet,
        nr \in NrSet, config_Ip \in ConfigIpSet \ {None}}
    \cup {Call(UnitMetricProfiles(n, k), config_Ip, 2, 1) :
        n \in NativeLenSet, k \in IpSlopeSet,
        config_Ip \in {None, Some(One)}}
    \cup {Call(RescaledRhonProfiles(n, e), None, nr, hires_fac) :
        n \in NativeLenSet, e \in RhonEndSet, nr \in NrSet,
        hires_fac \in HiresFacSet}
    \cup {Call(RepeatedKnotProfiles(n, k), None, nr, 1) :
        n \in NativeLenSet \ {2}, k \in 2..3, nr \in NrSet}
    \cup {Call(LongPsiProfiles(n), config_Ip, nr, 1) :
        n \in NativeLenSet, config_Ip \in {None, Some(One)}, nr \in NrSet}

\* _build_standard_geometry on the arguments of one of these calls.
CallBuildStandardGeometry ==
    /\ pc = "idle"
    /\ \E in \in StandardInputs : StandardCall(in)
    /\ pc' = "_build_standard_geometry"
    /\ UNCHANGED runtime_params

\* An entry point called with the arguments a returns out: the caller
\* gets the result and finds its configuration object as the call left it.
EntryPointCall(a, out) ==
    /\ args' = a
    /\ ret' = Without(out, "runtime_params")
    /\ runtime_params' = out.runtime_params

\* build_geometry on the configuration object rp and the profiles, after
\* the calls on the same object and profiles whose Ip_from_parameters are
\* listed in earlier.
BuildGeometryCall(rp, profiles, earlier) ==
    \E nr \in {2}, hires_fac \in {1}, Ip_from_parameters \in BOOLEAN :
        EntryPointCall(
            [op |-> "build_geometry", runtime_params |-> rp,
             profiles |-> profiles, nr |-> nr, hires_fac |-> hires_fac,
             Ip_from_parameters |-> Ip_from_parameters,
             earlier |-> earlier],
            build_geometry(rp, profiles, nr, hires_fac, Ip_from_parameters))

\* build_geometry on a configuration object of the caller's.
CallBuildGeometry ==
    /\ pc = "idle"
    /\ \E rp \in RuntimeParamsSet, profiles \in BuildGeometryProfiles :
          BuildGeometryCall(rp, profiles, <<>>)
    /\ pc' = "build_geometry"

\* build_geometry once more on the same configuration object, as the
\* call before left it, and on the same profiles.
CallBuildGeometryAgain ==
    /\ pc = "build_geometry"
    /\ Len(args.earlier) + 1 < MaxCalls
    /\ BuildGeometryCall(runtime_params, args.profiles,
                         Append(args.earlier, args.Ip_from_parameters))
    /\ pc' = "build_geometry"

\* build_geometry_from_chease on a configuration object of the caller's,
\* in some environment and with some file at the resolved path.
CallBuildGeometryFromChease ==
    /\ pc = "idle"
    /\ \E rp \in RuntimeParamsSet, geometry_dir \in GeometryDirSet,
          geometry_file \in GeometryFileSet, environ \in EnvironSet,
          chease_data \in CheaseFiles, nr \in {2}, hires_fac \in {1},
          Ip_from_parameters \in BOOLEAN :
          EntryPointCall(
              [op |-> "build_geometry_from_chease", runtime_params |-> rp,
               geometry_dir |-> geometry_dir,
               geometry_file |-> geometry_file, nr |-> nr,
               Rmaj |-> Int2Num(3), Rmin |-> Int2Num(2), B0 |-> Int2Num(2),
               hires_fac |-> hires_fac,
               Ip_from_parameters |-> Ip_from_parameters,
               environ |-> environ, chease_data |-> chease_data],
              build_geometry_from_chease(
                  rp, geometry_dir, geometry_file, nr, Int2Num(3),
                  Int2Num(2), Int2Num(2), hires_fac, Ip_from_parameters,
                  environ, chease_data))
    /\ pc' = "build_geometry_from_chease"

\* ------------------------------------------------------------------
\* sources/source.py.  An array of shape (n,) is a sequence of n numbers,
\* an array of shape (m, n) a sequence of m such rows.  A source function
\* (model_func, formula) is given by the array it returns for the arguments
\* of the call.

\* runtime_params_lib.Mode, by value
Mode == [ZERO |-> 0, MODEL_BASED |-> 1, FORMULA_BASED |-> 2]

\* jnp.zeros(shape)
jnp_zeros(shape) ==
    IF Len(shape) = 1 THEN zeros(shape[1])
    ELSE [i \in 1..shape[1] |-> zeros(shape[2])]

\* The outputs of the two functions added whatever the mode.
get_source_profiles_sum_both(mode, model_func, formula, output_shape) ==
    IF Len(output_shape) = 1 THEN VAdd(model_func, formula)
    ELSE [i \in 1..output_shape[1] |-> VAdd(model_func[i], formula[i])]

\* get_source_profiles: output = zeros; output += where(mode == MODEL_BASED,
\* model_func(...), zeros); output += where(mode == FORMULA_BASED,
\* formula(...), zeros).  Both functions are evaluated in every mode.
get_source_profiles(mode, model_func, formula, output_shape) ==
    LET zeros_ == jnp_zeros(output_shape)
        where(cond, x, y) == IF cond THEN x ELSE y
        plus(a, b) == IF Len(output_shape) = 1 THEN VAdd(a, b)
                      ELSE [i \in 1..output_shape[1] |-> VAdd(a[i], b[i])]
    IN  plus(plus(jnp_zeros(output_shape),
                  where(mode = Mode.MODEL_BASED, model_func, zeros_)),
             where(mode = Mode.FORMULA_BASED, formula, zeros_))

\* Output shapes: a profile on the cell grid, or one row per affected core
\* profile.
OutputShapeSet ==
    {<<n>> : n \in 1..MaxCells} \cup {<<2, n>> : n \in 1..MaxCells}

\* What a source function returns: an array of the shape with the entries
\* k, 2k, ... (all 0 for k = 0), for k from -1 to MaxSourceVal.
SourceOutput(shape, k) ==
    IF Len(shape) = 1 THEN [j \in 1..shape[1] |-> Int2Num(k * j)]
    ELSE [i \in 1..shape[1] |->
            [j \in 1..shape[2] |-> Int2Num(k * (j + shape[2] * (i - 1)))]]

\* get_source_profiles on the outputs of a model function and a formula, in
\* the modes ZERO, MODEL_BASED, FORMULA_BASED and in modes that are none of
\* them.
CallGetSourceProfiles ==
    /\ pc = "idle"
    /\ \E mode \in 0..MaxMode, output_shape \in OutputShapeSet,
          km \in (-1)..MaxSourceVal, kf \in (-1)..MaxSourceVal :
          /\ args' = [op |-> "get_source_profiles", mode |-> mode,
                      model_func |-> SourceOutput(output_shape, km),
                      formula |-> SourceOutput(output_shape, kf),
                      output_shape |-> output_shape]
          /\ ret' = [status |-> "ok",
                     value |-> get_source_profiles(
                                   mode, SourceOutput(output_shape, km),
                                   SourceOutput(output_shape, kf),
                                   output_shape)]
    /\ pc' = "get_source_profiles"
    /\ UNCHANGED runtime_params

\* jax_utils.error_if(var, cond, msg): raises msg if cond, else var
error_if(var, cond, msg) ==
    IF cond THEN [status |-> "error", msg |-> msg]
    ELSE [status |-> "ok", v |-> var]

\* Every mode with a name is taken as supported.
is_type_supported_any_named(supported_modes, mode) ==
    mode \in {Mode.ZERO, Mode.MODEL_BASED, Mode.FORMULA_BASED}

\* Source._is_type_supported: any(supported_mode.value == mode)
is_type_supported(supported_modes, mode) ==
    \E i \in 1..Len(supported_modes) : supported_modes[i] = mode

\* Source.check_mode
check_mode(self, mode) ==
    error_if(mode, ~is_type_supported(self.supported_modes, mode),
             <<"unsupported mode", mode>>)

\* Source.get_value with dynamic_source_runtime_params.mode = mode: the
\* status, the value returned and the functions of the source that were
\* called.  A function that is None is replaced by one returning zeros.
get_value(self, mode, geo) ==
    LET output_shape ==
            IF self.output_shape_getter = "get_cell_profile_shape"
            THEN <<Len(geo.r)>> ELSE <<2, Len(geo.r)>>
        model_func == IF self.model_func = None THEN jnp_zeros(output_shape)
                      ELSE SourceOutput(output_shape, self.model_func.v)
        formula == IF self.formula = None THEN jnp_zeros(output_shape)
                   ELSE SourceOutput(output_shape, self.formula.v)
    IN  IF check_mode(self, mode).status = "error"
        THEN [status |-> "error", called |-> {}]
        ELSE [status |-> "ok",
              value |-> get_source_profiles(mode, model_func, formula,
                                            output_shape),
              called |-> {f \in {"model_func", "formula"} : self[f] # None}]

\* Sources: the default supported modes (ZERO, FORMULA_BASED), those of
\* IonElectronSource, all three modes, MODEL_BASED alone; a profile on the
\* cell grid for one core profile or rows for the ion and electron
\* temperatures; each function provided or None.
SourceSet ==
    {[affected_core_profiles |-> shape[2],
      supported_modes |-> supported_modes,
      output_shape_getter |-> shape[1],
      model_func |-> model_func, formula |-> formula] :
        shape \in {<<"get_cell_profile_shape", <<1>>>>,
                   <<"get_cell_profile_shape", <<2>>>>,
                   <<"_get_ion_el_output_shape", <<3, 4>>>>},
        supported_modes \in
            {<<Mode.ZERO, Mode.FORMULA_BASED>>,
             <<Mode.FORMULA_BASED, Mode.ZERO>>,
             <<Mode.ZERO, Mode.MODEL_BASED, Mode.FORMULA_BASED>>,
             <<Mode.MODEL_BASED>>},
        model_func \in {None, Some(1)},
        formula \in {None, Some(MaxSourceVal)}}

\* Source.get_value on a geometry of n cells.
CallGetValue ==
    /\ pc = "idle"
    /\ \E self \in SourceSet, mode \in 0..MaxMode, n \in 1..MaxCells :
          /\ args' = [op |-> "get_value", self |-> self, mode |-> mode,
                      geo |-> [r |-> Grid1D_construct(n, Rat(1, n))
                                         .cell_centers]]
          /\ ret' = get_value(self, mode,
                              [r |-> Grid1D_construct(n, Rat(1, n))
                                         .cell_centers])
    /\ pc' = "get_value"
    /\ UNCHANGED runtime_params

\* The first row whenever the core profile is affected.
get_source_profile_for_affected_core_profile_first_row(self, profile, affected_core_profile, geo) ==
    IF \E i \in 1..Len(self.affected_core_profiles) :
           self.affected_core_profiles[i] = affected_core_profile
    THEN profile[1]
    ELSE zeros(Len(geo.r))

\* Source.get_source_profile_for_affected_core_profile:
\* idx = argmax(ints == affected_core_profile), the first position that
\* matches and 0 (here 1) when none does;
\* where(affected_core_profile in ints, profile[idx, ...], zeros_like(geo.r))
get_source_profile_for_affected_core_profile(self, profile, affected_core_profile, geo) ==
    LET ints == self.affected_core_profiles
        matches == {i \in 1..Len(ints) : ints[i] = affected_core_profile}
        idx == IF matches = {} THEN 1
               ELSE CHOOSE i \in matches : \A j \in matches : i <= j
    IN  IF matches # {} THEN profile[idx] ELSE zeros(Len(geo.r))

\* SingleProfileSource.get_source_profile_for_affected_core_profile:
\* where(affected_core_profile in ints, profile, zeros_like(geo.r))
SingleProfileSource_get_source_profile_for_affected_core_profile(self, profile, affected_core_profile, geo) ==
    IF \E i \in 1..Len(self.affected_core_profiles) :
           self.affected_core_profiles[i] = affected_core_profile
    THEN profile
    ELSE zeros(Len(geo.r))

\* get_source_profile_for_affected_core_profile of a Source, on a profile
\* with one row per affected core profile, or of a SingleProfileSource, on
\* a profile on the cell grid; for each of the core profiles NONE .. TEMP_EL.
CallGetSourceProfileForAffectedCoreProfile ==
    /\ pc = "idle"
    /\ \E class \in {"Source", "SingleProfileSource"},
          ints \in {<<0>>, <<1>>, <<3, 4>>, <<4, 3>>},
          k \in 1..MaxSourceVal, affected_core_profile \in 0..4,
          n \in 1..MaxCells :
          LET self == [class |-> class, affected_core_profiles |-> ints,
                       supported_modes |-> <<Mode.ZERO, Mode.FORMULA_BASED>>,
                       output_shape_getter |->
                           IF class = "Source" THEN "one_row_per_profile"
                           ELSE "get_cell_profile_shape",
                       model_func |-> None, formula |-> None]
              profile == IF class = "Source"
                         THEN SourceOutput(<<Len(ints), n>>, k)
                         ELSE SourceOutput(<<n>>, k)
              geo == [r |-> Grid1D_construct(n, Rat(1, n)).cell_centers]
          IN  /\ args' = [op |-> "get_source_profile_for_affected_core_profile",
                          self |-> self, profile |-> profile,
                          affected_core_profile |-> affected_core_profile,
                          geo |-> geo]
              /\ ret' = [status |-> "ok",
                         value |->
                           IF class = "Source"
                           THEN get_source_profile_for_affected_core_profile(
                                    self, profile, affected_core_profile, geo)
                           ELSE SingleProfileSource_get_source_profile_for_affected_core_profile(
                                    self, profile, affected_core_profile, geo)]
    /\ pc' = "get_source_profile_for_affected_core_profile"
    /\ UNCHANGED runtime_params

\* A Python value is a record with its kind (affected: a tuple of
\* AffectedCoreProfile, modes: a tuple of Mode, callable, None, int, or the
\* class of a runtime-params object) and, where it matters, its content v.
\* A dataclass field has a name, a type string, init and a default (None
\* when it has none).  An instance maps field names to values.

\* The init kwargs with the field runtime_params among them.
convert_source_builder_to_init_kwargs_all_fields(source_builder) ==
    source_builder

\* _convert_source_builder_to_init_kwargs: every field of the builder but
\* runtime_params
convert_source_builder_to_init_kwargs(source_builder) ==
    [name \in DOMAIN source_builder \ {"runtime_params"} |->
        source_builder[name]]

\* check_kwargs of make_source_builder: the first field of source_fields
\* whose value fails its check decides; "ok" if none does.
check_kwargs(source_fields, source_init_kwargs) ==
    LET check(f) ==
            LET v == source_init_kwargs[f.name]
            IN  CASE f.type = "tuple[AffectedCoreProfile, ...]" ->
                       IF v.kind = "affected" THEN "ok" ELSE "AssertionError"
                  [] f.type = "tuple[runtime_params_lib.Mode, ...]" ->
                       IF v.kind = "modes" THEN "ok" ELSE "AssertionError"
                  [] f.type = "SourceProfileFunction | None" ->
                       IF v.kind \in {"None", "callable"} THEN "ok"
                       ELSE "AssertionError"
                  [] f.type \in {"source.SourceProfileFunction",
                                 "source.SourceOutputShapeFunction",
                                 "SourceOutputShapeFunction"} ->
                       IF v.kind = "callable" THEN "ok" ELSE "TypeError"
                  [] OTHER -> "TypeError"
        failing == {i \in 1..Len(source_fields) :
                       check(source_fields[i]) # "ok"}
    IN  IF failing = {} THEN "ok"
        ELSE check(source_fields[CHOOSE i \in failing :
                                     \A j \in failing : i <= j])

\* make_source_builder with links_back=False: ValueError for a source type
\* with a field runtime_params; otherwise the builder dataclass, whose
\* fields are the init fields of the source type and runtime_params.
make_source_builder(source_type, runtime_params_type) ==
    IF \E i \in 1..Len(source_type.fields) :
           source_type.fields[i].name = "runtime_params"
    THEN [status |-> "ValueError"]
    ELSE [status |-> "ok",
          name |-> source_type.name \o <<"Builder">>,
          source_type |-> source_type,
          source_fields |-> SelectSeq(source_type.fields,
                                      LAMBDA f : f.init),
          runtime_params_type |-> runtime_params_type,
          links_back |-> FALSE]

\* build_source, the __call__ of a builder: the init kwargs are checked
\* and handed to the constructor of the source type, which refuses a
\* keyword that is not an init field and fills the other fields with
\* their defaults.
build_source(builder_type, self) ==
    LET source_init_kwargs == convert_source_builder_to_init_kwargs(self)
        checked == check_kwargs(builder_type.source_fields,
                                source_init_kwargs)
        fields == builder_type.source_type.fields
        init_names == {builder_type.source_fields[i].name :
                          i \in 1..Len(builder_type.source_fields)}
    IN  IF checked # "ok"
        THEN [status |-> checked, source_init_kwargs |-> source_init_kwargs]
        ELSE IF ~(DOMAIN source_init_kwargs \subseteq init_names)
        THEN [status |-> "TypeError",
              source_init_kwargs |-> source_init_kwargs]
        ELSE [status |-> "ok", source_init_kwargs |-> source_init_kwargs,
              source |->
                [name \in {fields[i].name : i \in 1..Len(fields)} |->
                    IF name \in DOMAIN source_init_kwargs
                    THEN source_init_kwargs[name]
                    ELSE fields[CHOOSE i \in 1..Len(fields) :
                                    fields[i].name = name].default.v]]

\* make_source_builder on Source, SingleProfileSource, IonElectronSource
\* and on a source class that still has a field runtime_params.
CallMakeSourceBuilder ==
    /\ pc = "idle"
    /\ \E class \in {"Source", "SingleProfileSource", "IonElectronSource",
                     "LegacySource"},
          runtime_params_type \in {"RuntimeParams", "FooRuntimeParams"} :
          LET ion_el == class = "IonElectronSource"
              source_type ==
                [name |-> <<class>>,
                 fields |->
                   <<[name |-> "affected_core_profiles",
                      type |-> "tuple[AffectedCoreProfile, ...]",
                      init |-> ~ion_el,
                      default |-> IF ion_el
                                  THEN Some([kind |-> "affected",
                                             v |-> <<3, 4>>])
                                  ELSE None],
                     [name |-> "supported_modes",
                      type |-> "tuple[runtime_params_lib.Mode, ...]",
                      init |-> TRUE,
                      default |->
                          Some([kind |-> "modes",
                                v |-> IF ion_el
                                      THEN <<Mode.FORMULA_BASED, Mode.ZERO>>
                                      ELSE <<Mode.ZERO,
                                             Mode.FORMULA_BASED>>])],
                     [name |-> "output_shape_getter",
                      type |-> "SourceOutputShapeFunction",
                      init |-> class \in {"Source", "LegacySource"},
                      default |->
                          Some([kind |-> "callable",
                                v |-> IF ion_el
                                      THEN "_get_ion_el_output_shape"
                                      ELSE "get_cell_profile_shape"])],
                     [name |-> "model_func",
                      type |-> "SourceProfileFunction | None",
                      init |-> TRUE, default |-> Some([kind |-> "None"])],
                     [name |-> "formula",
                      type |-> "SourceProfileFunction | None",
                      init |-> TRUE, default |-> Some([kind |-> "None"])]>>
                   \o (IF class = "LegacySource"
                       THEN <<[name |-> "runtime_params",
                               type |-> "runtime_params_lib.RuntimeParams",
                               init |-> TRUE,
                               default |-> Some([kind |-> "RuntimeParams"])]>>
                       ELSE <<>>)]
          IN  /\ args' = [op |-> "make_source_builder",
                          source_type |-> source_type,
                          runtime_params_type |-> runtime_params_type]
              /\ ret' = make_source_builder(source_type, runtime_params_type)
    /\ pc' = "make_source_builder"
    /\ UNCHANGED runtime_params

\* The constructor of a builder dataclass, keyword-only: a field without a
\* default must be given, the others take their defaults (runtime_params
\* that of runtime_params_type()); then __post_init__ checks the kwargs of
\* the source and that runtime_params is an instance of
\* runtime_params_type (FooRuntimeParams being a subclass of RuntimeParams).
ConstructSourceBuilder ==
    /\ pc = "make_source_builder"
    /\ ret.status = "ok"
    /\ \E given \in SUBSET {"affected_core_profiles", "formula",
                            "runtime_params"},
          formula \in {[kind |-> "callable", v |-> 1], [kind |-> "int"]},
          params \in {[kind |-> "RuntimeParams"],
                      [kind |-> "FooRuntimeParams"], [kind |-> "dict"]} :
          LET source_fields == ret.source_fields
              names == {source_fields[i].name : i \in 1..Len(source_fields)}
              kwargs ==
                [name \in given \cap (names \cup {"runtime_params"}) |->
                    CASE name = "affected_core_profiles" ->
                           [kind |-> "affected", v |-> <<1>>]
                      [] name = "formula" -> formula
                      [] OTHER -> params]
              default(name) ==
                IF name = "runtime_params"
                THEN Some([kind |-> ret.runtime_params_type])
                ELSE source_fields[CHOOSE i \in 1..Len(source_fields) :
                                       source_fields[i].name = name].default
              missing == {name \in names \ DOMAIN kwargs :
                             default(name) = None}
              self == [name \in names \cup {"runtime_params"} |->
                         IF name \in DOMAIN kwargs THEN kwargs[name]
                         ELSE default(name).v]
              checked ==
                check_kwargs(source_fields,
                             convert_source_builder_to_init_kwargs(self))
              isinstance ==
                \/ self.runtime_params.kind = ret.runtime_params_type
                \/ /\ self.runtime_params.kind = "FooRuntimeParams"
                   /\ ret.runtime_params_type = "RuntimeParams"
          IN  /\ ("formula" \in given) \/ formula.kind = "callable"
              /\ ("runtime_params" \in given)
                    \/ params.kind = "RuntimeParams"
              /\ args' = [op |-> "SourceBuilder", builder_type |-> ret,
                          kwargs |-> kwargs]
              /\ ret' = IF missing # {} THEN [status |-> "TypeError"]
                        ELSE IF checked # "ok" THEN [status |-> checked]
                        ELSE IF ~isinstance THEN [status |-> "TypeError"]
                        ELSE [status |-> "ok", self |-> self,
                              assigned |-> <<>>]
    /\ pc' = "SourceBuilder"
    /\ UNCHANGED runtime_params

\* An assignment to a field of a builder, which is not frozen: nothing is
\* checked.
SetSourceBuilderField ==
    /\ pc = "SourceBuilder"
    /\ ret.status = "ok"
    /\ Len(ret.assigned) < MaxAssign
    /\ \E a \in {<<"formula", [kind |-> "callable", v |-> 2]>>,
                 <<"formula", [kind |-> "int"]>>,
                 <<"supported_modes",
                   [kind |-> "modes", v |-> <<Mode.MODEL_BASED>>]>>,
                 <<"runtime_params", [kind |-> "dict"]>>} :
          ret' = [ret EXCEPT !.self[a[1]] = a[2],
                             !.assigned = Append(@, a[1])]
    /\ UNCHANGED <<pc, args, runtime_params>>

\* The call of a builder.
CallSourceBuilder ==
    /\ pc = "SourceBuilder"
    /\ ret.status = "ok"
    /\ args' = [op |-> "build_source", builder_type |-> args.builder_type,
                self |-> ret.self]
    /\ ret' = build_source(args.builder_type, ret.self)
    /\ pc' = "build_source"
    /\ UNCHANGED runtime_params

\* The caller takes the result and lets go of it and of its configuration.
Return ==
    /\ pc # "idle"
    /\ pc' = "idle"
    /\ args' = [op |-> "none"]
    /\ ret' = [status |-> "none"]
    /\ runtime_params' = NoRuntimeParams

Next ==
    \/ CallGrid1DConstruct
    \/ CallFaceToCell
    \/ CallFaceToCellOnGrid
    \/ CallBuildCircularGeometry
    \/ CallBuildStandardGeometry
    \/ CallBuildGeometry
    \/ CallBuildGeometryAgain
    \/ CallBuildGeometryFromChease
    \/ CallGetSourceProfiles
    \/ CallGetValue
    \/ CallGetSourceProfileForAffectedCoreProfile
    \/ CallMakeSourceBuilder
    \/ ConstructSourceBuilder
    \/ SetSourceBuilderField
    \/ CallSourceBuilder
    \/ Return

Spec == Init /\ [][Next]_vars

----------------------------------------------------------------------------
(* Properties                                                              *)

ValidGridCall ==
    pc = "Grid1D.construct" /\ args.nx >= 1 /\ Lt(Zero, args.dx)

\* C1: for nx >= 1 and dx > 0, Grid1D.construct returns a grid with nx+1
\* face centers and nx cell centers, and every cell center is the midpoint
\* of its two faces: cell_centers[i] = 0.5*(face_centers[i]+face_centers[i+1]).
C1_CellCentersAreFaceMidpoints ==
    ValidGridCall =>
        /\ ret.status = "ok"
        /\ Len(ret.face_centers) = args.nx + 1
        /\ Len(ret.cell_centers) = args.nx
        /\ \A i \in 1..args.nx :
              ret.cell_centers[i] =
                  Mul(Half, Add(ret.face_centers[i], ret.face_centers[i + 1]))

C1_Witness ==
    /\ ValidGridCall
    /\ args.nx = 3
    /\ args.dx = Rat(3, 2)
    /\ ret.status = "ok"

\* C2: for nx >= 1 and dx > 0, face_centers[i] = i*dx for i in 0..nx and
\* cell_centers[i] = (i+0.5)*dx for i in 0..nx-1 (also when nx = 1), and
\* both sequences are strictly increasing.
C2_EvenlySpacedIncreasing ==
    ValidGridCall =>
        /\ ret.status = "ok"
        /\ DOMAIN ret.face_centers = 1..(args.nx + 1)
        /\ DOMAIN ret.cell_centers = 1..args.nx
        /\ \A j \in 1..(args.nx + 1) :
              ret.face_centers[j] = Mul(Int2Num(j - 1), args.dx)
        /\ \A j \in 1..args.nx :
              ret.cell_centers[j] = Mul(Add(Int2Num(j - 1), Half), args.dx)
        /\ \A j \in 1..args.nx :
              Lt(ret.face_centers[j], ret.face_centers[j + 1])
        /\ \A j \in 1..(args.nx - 1) :
              Lt(ret.cell_centers[j], ret.cell_centers[j + 1])

C2_Witness ==
    /\ ValidGridCall
    /\ args.nx = 1
    /\ ret.status = "ok"
    /\ ret.cell_centers = <<Mul(Half, args.dx)>>
    /\ ret.face_centers = <<Zero, args.dx>>

\* C3: Grid1D.construct called with a non-positive nx or a non-positive dx
\* fails with an error and never returns a grid.
C3_NonPositiveInputFails ==
    (pc = "Grid1D.construct" /\ (args.nx <= 0 \/ Le(args.dx, Zero)))
        => ret.status # "ok"

\* C4: face_to_cell returns an array one element shorter than a non-empty
\* face array, with cell[i] = 0.5*(face[i]+face[i+1]); and on the faces of a
\* constructed grid a linear profile a + b*x is mapped to the same profile
\* on the cell centers.
C4_FaceToCellMidpointLinear ==
    /\ (pc \in {"face_to_cell", "face_to_cell(grid)"} /\ Len(args.face) >= 1) =>
          /\ Len(ret.cell) = Len(args.face) - 1
          /\ \A i \in 1..(Len(args.face) - 1) :
                ret.cell[i] = Mul(Half, Add(args.face[i], args.face[i + 1]))
    /\ pc = "face_to_cell(grid)" =>
          /\ Len(ret.cell) = Len(args.mesh.cell_centers)
          /\ \A i \in 1..Len(args.mesh.cell_centers) :
                ret.cell[i] = Add(args.a, Mul(args.b, args.mesh.cell_centers[i]))

C4_Witness ==
    /\ pc = "face_to_cell(grid)"
    /\ args.b = Int2Num(2)
    /\ args.a = Int2Num(-1)
    /\ args.mesh.nx = 3
    /\ Len(ret.cell) = 3

CellFields ==
    {"r_norm", "r", "volume", "area", "vpr", "spr_cell", "g0", "g1", "g2",
     "g3", "g2g3_over_rho", "g1_over_vpr", "g1_over_vpr2", "J", "F", "Rin",
     "Rout", "kappa", "psi", "psi_from_Ip", "jtot"}

FaceFields ==
    {"r_face_norm", "r_face", "volume_face", "area_face", "vpr_face",
     "spr_face", "delta_face", "g0_face", "g1_face", "g2_face", "g3_face",
     "g2g3_over_rho_face", "g0_over_vpr_face", "g1_over_vpr_face",
     "g1_over_vpr2_face", "J_face", "F_face", "Rin_face", "Rout_face",
     "kappa_face", "jtot_face", "delta_upper_face", "delta_lower_face"}

HiresFields ==
    {"g2g3_over_rho_hires", "J_hires", "volume_hires", "area_hires",
     "spr_hires", "r_hires_norm", "r_hires", "vpr_hires", "kappa_hires"}

NonArrayFields ==
    {"status", "geometry_type", "dr_norm", "dr", "mesh", "rmax", "Rmaj",
     "Rmin", "B0"}

\* The geometry record of the call that has returned.
Geo == IF pc = "_build_standard_geometry" THEN ret.geo ELSE ret

\* _build_standard_geometry has returned (it did not raise).
StandardBuilt == pc = "_build_standard_geometry" /\ ret.status = "ok"

GeometryBuilt == pc = "build_circular_geometry" \/ StandardBuilt

\* C5: in every geometry returned by either builder every cell array has
\* length nr, every face array length nr+1 and every hires array length
\* nr*hires_fac, whatever the length of the native grid.
C5_ArrayLengths ==
    GeometryBuilt =>
        /\ DOMAIN Geo \subseteq
              CellFields \cup FaceFields \cup HiresFields \cup NonArrayFields
        /\ \A f \in CellFields \cap DOMAIN Geo : Len(Geo[f]) = args.nr
        /\ \A f \in FaceFields \cap DOMAIN Geo : Len(Geo[f]) = args.nr + 1
        /\ \A f \in HiresFields \cap DOMAIN Geo :
              Len(Geo[f]) = args.nr * args.hires_fac
        /\ Len(Geo.mesh.cell_centers) = args.nr
        /\ Len(Geo.mesh.face_centers) = args.nr + 1

C5_Witness ==
    /\ pc = "_build_standard_geometry"
    /\ Len(args.rhon) = 4
    /\ args.nr = 2
    /\ args.hires_fac = 2
    /\ Len(ret.geo.psi_from_Ip) = 2
    /\ Len(ret.geo.jtot_face) = 3
    /\ Len(ret.geo.vpr_hires) = 4

\* C6: the circular builder returns g0_over_vpr_face[0] = 1,
\* g1_over_vpr_face[0] = 0 and g1_over_vpr2_face[0] = 1 for every parameter
\* set; the values are the constants, not the quotient by vpr_face[0], which
\* is 0 and would give 0/0.
C6_CircularAxisLimits ==
    pc = "build_circular_geometry" =>
        /\ ret.g0_over_vpr_face[1] = One
        /\ ret.g1_over_vpr_face[1] = Zero
        /\ ret.g1_over_vpr2_face[1] = One
        /\ ret.vpr_face[1] = Zero
        /\ IsNaN(Div(ret.g0_face[1], ret.vpr_face[1]))
        /\ IsNaN(Div(ret.g1_face[1], ret.vpr_face[1]))
        /\ IsNaN(Div(ret.g1_face[1], Sq(ret.vpr_face[1])))

C6_Witness ==
    /\ pc = "build_circular_geometry"
    /\ args.kappa = Rat(3, 2)
    /\ args.nr = 3
    /\ ret.g0_over_vpr_face = <<One, One, One, One>>
    /\ ret.g1_over_vpr_face[1] = Zero
    /\ ret.g1_over_vpr_face[2] = ret.vpr_face[2]

\* C7: with kappa = 1 the circular builder returns volume = 2 pi^2 Rmaj r^2
\* and area = pi r^2 on the cell, face and hires grids, and elongation
\* profiles that are identically 1.
C7_CircularTorusWhenKappaOne ==
    (pc = "build_circular_geometry" /\ args.kappa = One) =>
        /\ \A i \in 1..Len(ret.r) :
              /\ ret.volume[i] = Mul(Mul(Norm(2, 1, 2), args.Rmaj), Sq(ret.r[i]))
              /\ ret.area[i] = Mul(PiPow(1), Sq(ret.r[i]))
              /\ ret.kappa[i] = One
        /\ \A i \in 1..Len(ret.r_face) :
              /\ ret.volume_face[i] =
                    Mul(Mul(Norm(2, 1, 2), args.Rmaj), Sq(ret.r_face[i]))
              /\ ret.area_face[i] = Mul(PiPow(1), Sq(ret.r_face[i]))
              /\ ret.kappa_face[i] = One
        /\ \A i \in 1..Len(ret.r_hires) :
              /\ ret.volume_hires[i] =
                    Mul(Mul(Norm(2, 1, 2), args.Rmaj), Sq(ret.r_hires[i]))
              /\ ret.area_hires[i] = Mul(PiPow(1), Sq(ret.r_hires[i]))
              /\ ret.kappa_hires[i] = One

C7_Witness ==
    /\ pc = "build_circular_geometry"
    /\ args.kappa = One
    /\ args.nr = 2
    /\ args.Rmaj = Int2Num(3)
    /\ args.Rmin = Int2Num(2)
    /\ ret.volume = <<Norm(3, 2, 2), Norm(27, 2, 2)>>
    /\ ret.area_face = <<Zero, PiPow(1), Norm(4, 1, 1)>>

\* C8: the circular builder returns mesh.nx = nr, nr*hires_fac hires points,
\* r[0] = dr/2, r_face[nr] = Rmin, volume_face[0] = 0 and
\* volume_face[nr] = 2 pi^2 Rmaj Rmin^2 kappa.
C8_CircularScenario ==
    pc = "build_circular_geometry" =>
        /\ ret.mesh.nx = args.nr
        /\ Len(ret.r_hires) = args.nr * args.hires_fac
        /\ ret.r[1] = Mul(ret.dr, Half)
        /\ ret.r_face[args.nr + 1] = args.Rmin
        /\ ret.volume_face[1] = Zero
        /\ ret.volume_face[args.nr + 1] =
              Mul(Mul(Mul(Norm(2, 1, 2), args.Rmaj), Sq(args.Rmin)), args.kappa)

C8_Witness ==
    /\ pc = "build_circular_geometry"
    /\ args.kappa = Rat(3, 2)
    /\ args.nr = 3
    /\ args.hires_fac = 2
    /\ args.Rmaj = Int2Num(3)
    /\ args.Rmin = Int2Num(2)
    /\ Len(ret.r_hires) = 6
    /\ ret.volume_face[4] = Norm(36, 1, 2)

\* C9: every call of _build_standard_geometry does exactly one of two
\* things: with config_Ip it rescales the reconstructed flux by
\* config_Ip*1e6/Ip[last] and reports no current; without config_Ip the
\* scale factor is 1, nothing is rescaled and a current is reported.
C9_ConformOrReport ==
    StandardBuilt =>
        /\ (ret.updated_config_Ip = None) # (ret.locals.rescaled = FALSE)
        /\ args.config_Ip # None =>
              /\ ret.locals.rescaled
              /\ ret.updated_config_Ip = None
              /\ ret.locals.Ip_scale_factor =
                    Div(Mul(args.config_Ip.v, MA), Last(args.Ip))
              /\ ret.locals.psi_from_Ip =
                    SMul(ret.locals.Ip_scale_factor,
                         ret.locals.psi_from_Ip_unscaled)
        /\ args.config_Ip = None =>
              /\ ~ret.locals.rescaled
              /\ ret.updated_config_Ip # None
              /\ ret.locals.Ip_scale_factor = One
              /\ ret.locals.psi_from_Ip = ret.locals.psi_from_Ip_unscaled

C9_Witness ==
    /\ pc = "_build_standard_geometry"
    /\ args.config_Ip = Some(Int2Num(2))
    /\ Last(args.Ip) = Int2Num(500000)
    /\ ret.locals.Ip_scale_factor = Int2Num(4)
    /\ ret.locals.psi_from_Ip # ret.locals.psi_from_Ip_unscaled
    /\ ret.updated_config_Ip = None

\* C10: with config_Ip and Ip[last] # 0 the rescaled edge current
\* Ip[last]*Ip_scale_factor equals config_Ip*1e6; without config_Ip the
\* reported current equals Ip[last]/1e6.
C10_NormalizedEdgeCurrent ==
    StandardBuilt =>
        /\ (args.config_Ip # None /\ Last(args.Ip) # Zero) =>
              Mul(Last(args.Ip), ret.locals.Ip_scale_factor) =
                  Mul(args.config_Ip.v, MA)
        /\ args.config_Ip = None =>
              /\ ret.updated_config_Ip # None
              /\ ret.updated_config_Ip.v = Div(Last(args.Ip), MA)

C10_Witness ==
    /\ pc = "_build_standard_geometry"
    /\ args.config_Ip = Some(Int2Num(1))
    /\ Last(args.Ip) = Int2Num(1500000)
    /\ ret.locals.Ip_scale_factor = Rat(2, 3)

\* C11: on the native grid, before rescaling and interpolation,
\* dpsidrho[0] = 0 and psi_from_Ip[0] = 0; for 0 < i < last psi_from_Ip[i] is
\* the trapezoidal sum over k in 1..i of
\* 0.5*(dpsidrho[k-1]+dpsidrho[k])*(rho[k]-rho[k-1]); and the last entry is
\* psi_from_Ip[last-1] + dpsidrho[last]*(rho[last]-rho[last-1]).
C11_RunningTrapezoid ==
    StandardBuilt =>
        LET d == ret.locals.dpsidrho
            p == ret.locals.psi_from_Ip_unscaled
            rho == args.rho
            last == Len(rho)
            RECURSIVE Sum(_)
            Sum(i) == IF i <= 1 THEN Zero
                      ELSE Add(Sum(i - 1),
                               Mul(Mul(Half, Add(d[i - 1], d[i])),
                                   Sub(rho[i], rho[i - 1])))
        IN  /\ Len(d) = last
            /\ Len(p) = last
            /\ d[1] = Zero
            /\ p[1] = Zero
            /\ \A i \in 2..(last - 1) : p[i] = Sum(i)
            /\ p[last] = Add(p[last - 1],
                             Mul(d[last], Sub(rho[last], rho[last - 1])))

C11_Witness ==
    /\ StandardBuilt
    /\ Len(args.rho) = 4
    /\ Last(args.Ip) = Int2Num(1500000)
    /\ ret.locals.psi_from_Ip_unscaled[3] # Zero
    /\ ret.locals.dpsidrho[3] # ret.locals.dpsidrho[4]
    /\ ret.locals.psi_from_Ip_unscaled[4] # ret.locals.psi_from_Ip_unscaled[3]

\* The call was fed unit metric coefficients (g2g3_over_rho and Rmaj*RBPhi
\* equal to 1 away from the axis) and a current linear in rho from rho = 0.
UnitMetricLinearIp ==
    /\ StandardBuilt
    /\ args.rho[1] = Zero
    /\ \A i \in 2..Len(args.rho) :
          /\ ret.locals.g2g3_over_rho[i] = One
          /\ Mul(args.Rmaj, args.RBPhi[i]) = One
          /\ args.Ip[i] = Mul(Div(Last(args.Ip), Last(args.rho)), args.rho[i])

\* c * k * rho^2 / 2 with k the slope of the call's current profile
ClosedFormPsi(x) ==
    Mul(Mul(flux_constant, Div(Last(args.Ip), Last(args.rho))), Mul(Half, Sq(x)))

\* C12 as stated: with Ip[i] = k*rho[i] and unit metric coefficients the
\* native psi_from_Ip equals c*k*rho[i]^2/2 at every native index,
\* including the last one.
C12_ClosedFormEverywhere ==
    UnitMetricLinearIp =>
        \A i \in 1..Len(args.rho) :
            ret.locals.psi_from_Ip_unscaled[i] = ClosedFormPsi(args.rho[i])

\* C12 (amended): with Ip[i] = k*rho[i] and unit metric coefficients the
\* native psi_from_Ip equals c*k*rho[i]^2/2 at every native index before
\* the last; at the last index it is
\* c*k*(rho[last]^2 + (rho[last]-rho[last-1])^2)/2, the one-sided step
\* overshooting the closed form by c*k*(rho[last]-rho[last-1])^2/2.
C12_ClosedFormBelowEdge ==
    UnitMetricLinearIp =>
        LET last == Len(args.rho)
        IN  /\ \A i \in 1..(last - 1) :
                  ret.locals.psi_from_Ip_unscaled[i] = ClosedFormPsi(args.rho[i])
            /\ ret.locals.psi_from_Ip_unscaled[last] =
                  Add(ClosedFormPsi(args.rho[last]),
                      ClosedFormPsi(Sub(args.rho[last], args.rho[last - 1])))

C12_Witness ==
    /\ UnitMetricLinearIp
    /\ Len(args.rho) = 4
    /\ Last(args.Ip) = Int2Num(250000)
    /\ ret.locals.psi_from_Ip_unscaled[3] = ClosedFormPsi(Rat(1, 3))
    /\ ret.locals.psi_from_Ip_unscaled[4] # ClosedFormPsi(Rat(1, 2))

StrictlyIncreasing(v) == \A i \in 1..(Len(v) - 1) : Lt(v[i], v[i + 1])

\* Every interpolated output of _build_standard_geometry: the grid of its
\* query points and the native profile it is interpolated from.
Interpolated ==
    LET On(g, fp) == [grid |-> g, native |-> fp]
        l == ret.locals
    IN  [vpr_face |-> On("r_face_norm", l.vpr),
         vpr_hires |-> On("r_hires_norm", l.vpr),
         vpr |-> On("r_norm", l.vpr),
         spr_face |-> On("r_face_norm", l.spr),
         spr_cell |-> On("r_norm", l.spr),
         spr_hires |-> On("r_hires_norm", l.spr),
         delta_upper_face |-> On("r_face_norm", args.delta_upper_face),
         delta_lower_face |-> On("r_face_norm", args.delta_lower_face),
         F_face |-> On("r_face_norm", args.RBPhi),
         J_hires |-> On("r_hires_norm", args.RBPhi),
         F |-> On("r_norm", args.RBPhi),
         psi |-> On("r_norm", args.psi),
         psi_from_Ip |-> On("r_norm", l.psi_from_Ip),
         jtot_face |-> On("r_face_norm", l.jtot),
         jtot |-> On("r_norm", l.jtot),
         Rin_face |-> On("r_face_norm", args.Rin),
         Rin |-> On("r_norm", args.Rin),
         Rout_face |-> On("r_face_norm", args.Rout),
         Rout |-> On("r_norm", args.Rout),
         g0_face |-> On("r_face_norm", l.g0),
         g0 |-> On("r_norm", l.g0),
         g1_face |-> On("r_face_norm", l.g1),
         g1 |-> On("r_norm", l.g1),
         g2_face |-> On("r_face_norm", l.g2),
         g2 |-> On("r_norm", l.g2),
         g3_face |-> On("r_face_norm", l.g3),
         g3 |-> On("r_norm", l.g3),
         g2g3_over_rho_face |-> On("r_face_norm", l.g2g3_over_rho),
         g2g3_over_rho_hires |-> On("r_hires_norm", l.g2g3_over_rho),
         g2g3_over_rho |-> On("r_norm", l.g2g3_over_rho),
         volume_face |-> On("r_face_norm", args.volume),
         volume_hires |-> On("r_hires_norm", args.volume),
         volume |-> On("r_norm", args.volume),
         area_face |-> On("r_face_norm", args.area),
         area_hires |-> On("r_hires_norm", args.area),
         area |-> On("r_norm", args.area)]

\* C13: whenever a query point (a value of r_norm, r_face_norm or
\* r_hires_norm) equals some rhon[k], the interpolated output of every
\* profile at that point equals the native sample at index k; and when the
\* native grid coincides with the face grid, every face output interpolated
\* from a profile reproduces that profile.  (For profiles of finite samples
\* on a strictly increasing rhon: a NaN sample equals nothing.)
C13_ExactAtKnots ==
    (StandardBuilt /\ StrictlyIncreasing(args.rhon)) =>
        \A f \in DOMAIN Interpolated :
            LET x == ret.geo[Interpolated[f].grid]
                fp == Interpolated[f].native
            IN  (\A k \in 1..Len(fp) : IsFinite(fp[k])) =>
                /\ \A j \in 1..Len(x), k \in 1..Len(args.rhon) :
                      x[j] = args.rhon[k] => ret.geo[f][j] = fp[k]
                /\ (x = args.rhon /\ Interpolated[f].grid = "r_face_norm")
                      => ret.geo[f] = fp

C13_Witness ==
    /\ StandardBuilt
    /\ Len(args.rhon) = 4
    /\ ret.geo.r_face_norm = args.rhon
    /\ ret.geo.volume_face = args.volume
    /\ args.volume = <<Zero, Int2Num(2), Int2Num(8), Int2Num(18)>>
    /\ ret.geo.jtot_face = ret.locals.jtot
    /\ \A k \in 1..4 : IsFinite(ret.locals.jtot[k])
    /\ Last(ret.geo.r_hires_norm) = Last(args.rhon)
    /\ Last(ret.geo.volume_hires) = Int2Num(18)

\* The arguments of _build_standard_geometry that are profiles on rhon.
ProfileArgs ==
    {"psi", "Ip", "rho", "Rin", "Rout", "RBPhi", "int_Jdchi",
     "flux_norm_1_over_R2", "flux_norm_Bp2", "flux_norm_dpsi",
     "flux_norm_dpsi2", "delta_upper_face", "delta_lower_face", "volume",
     "area"}

SameLengths == \A f \in ProfileArgs : Len(args[f]) = Len(args.rhon)

\* C14: every element of r_norm, r_face_norm and r_hires_norm is >= rhon[0]
\* and <= rhon[last], for any strictly increasing rhon starting at 0,
\* whatever the value of rhon[last].
C14_QueriesInsideNativeRange ==
    (StandardBuilt /\ StrictlyIncreasing(args.rhon) /\ args.rhon[1] = Zero) =>
        \A g \in {"r_norm", "r_face_norm", "r_hires_norm"} :
            \A j \in 1..Len(ret.geo[g]) :
                /\ Le(args.rhon[1], ret.geo[g][j])
                /\ Le(ret.geo[g][j], Last(args.rhon))

\* C17: _build_standard_geometry fails with an error, and returns no
\* geometry, when the profiles do not all have the length of rhon or when
\* rhon is not strictly increasing.
C17_MalformedInputFails ==
    (pc = "_build_standard_geometry"
        /\ (~SameLengths \/ ~StrictlyIncreasing(args.rhon)))
        => ret.status # "ok"

\* A call the builder's contract allows: profiles of the length of rhon,
\* rhon and rho strictly increasing from 0, the volume growing with rho.
ValidStandardCall ==
    /\ StandardBuilt
    /\ SameLengths
    /\ args.rhon[1] = Zero
    /\ StrictlyIncreasing(args.rhon)
    /\ StrictlyIncreasing(args.rho)
    /\ StrictlyIncreasing(args.volume)

\* C18: for every valid input g0_over_vpr_face[0] = 1,
\* g1_over_vpr_face[0] = 0 and g1_over_vpr2_face[0] = 1 are the constants,
\* and no ratio divides by zero: the face ratios are the quotients by
\* vpr_face[i] for i >= 1 only, the cell ratios the quotients by the cell
\* values of vpr, all of them nonzero, with r_norm[0] = dr_norm/2 > 0.
C18_StandardAxisLimits ==
    ValidStandardCall =>
        LET g == ret.geo
        IN  /\ g.g0_over_vpr_face[1] = One
            /\ g.g1_over_vpr_face[1] = Zero
            /\ g.g1_over_vpr2_face[1] = One
            /\ g.vpr_face[1] = Zero
            /\ \A i \in 2..(args.nr + 1) :
                  /\ IsFinite(g.vpr_face[i]) /\ g.vpr_face[i] # Zero
                  /\ g.g0_over_vpr_face[i] = Div(g.g0_face[i], g.vpr_face[i])
                  /\ g.g1_over_vpr_face[i] = Div(g.g1_face[i], g.vpr_face[i])
                  /\ g.g1_over_vpr2_face[i] =
                        Div(g.g1_face[i], Sq(g.vpr_face[i]))
            /\ \A i \in 1..args.nr :
                  /\ IsFinite(g.vpr[i]) /\ g.vpr[i] # Zero
                  /\ g.g1_over_vpr[i] = Div(g.g1[i], g.vpr[i])
                  /\ g.g1_over_vpr2[i] = Div(g.g1[i], Sq(g.vpr[i]))
            /\ g.r_norm[1] = Mul(g.dr_norm, Half)
            /\ Lt(Zero, g.r_norm[1])

C18_Witness ==
    /\ ValidStandardCall
    /\ args.nr = 3
    /\ Len(args.rhon) = 4
    /\ ret.geo.g0_over_vpr_face[1] = One
    /\ ret.geo.g0_face[1] = Zero
    /\ ret.geo.vpr_face[1] = Zero
    /\ ret.geo.g1_over_vpr[1] # Zero
    /\ IsFinite(ret.geo.g1_over_vpr2[1])

\* psi_from_Ip of the call on the native grid, had the iterations of its
\* loop been taken in the given order.
PsiFromIpInOrder(order) ==
    reconstruct_psi_from_Ip_in_order(order, args.psi, args.Ip, args.rho,
                                     ret.locals.g2g3_over_rho, args.Rmaj,
                                     args.RBPhi, ret.locals.dpsidrho)

\* C19 as stated: psi_from_Ip[i] depends on the entries computed for smaller
\* indices, so computing the entries in any order other than
\* least-radius-first changes the result.
C19_OtherOrderChangesResult ==
    StandardBuilt =>
        \A order \in Permutations(1..Len(args.psi)) \ {loop_range(Len(args.psi))} :
            PsiFromIpInOrder(order) # ret.locals.psi_from_Ip_unscaled

\* C19 (amended): every entry below the last is computed on its own, from
\* dpsidrho and rho alone, so the iterations of the loop give the same
\* psi_from_Ip in any order; only the last entry, assigned after the loop,
\* is computed from an entry computed before it (the one at last-1).
C19_AnyOrderSameResult ==
    StandardBuilt =>
        LET n == Len(args.psi)
            p == ret.locals.psi_from_Ip_unscaled
        IN  /\ \A order \in Permutations(1..n) : PsiFromIpInOrder(order) = p
            /\ \A i \in 1..(n - 1) :
                  p[i] = trapezoid(ret.locals.dpsidrho, args.rho, i)
            /\ p = psi_from_Ip_edge(p, args.Ip, args.rho,
                                     ret.locals.g2g3_over_rho, args.Rmaj,
                                     args.RBPhi)

C19_Witness ==
    /\ StandardBuilt
    /\ Len(args.psi) = 4
    /\ PsiFromIpInOrder(<<4, 3, 2, 1>>) = ret.locals.psi_from_Ip_unscaled
    /\ PsiFromIpInOrder(<<3, 1, 4, 2>>) = ret.locals.psi_from_Ip_unscaled
    /\ ret.locals.psi_from_Ip_unscaled[2] # Zero
    /\ ret.locals.psi_from_Ip_unscaled[3] # ret.locals.psi_from_Ip_unscaled[2]
    /\ ret.locals.psi_from_Ip_unscaled[4] # ret.locals.psi_from_Ip_unscaled[3]

\* C20: the native derivatives vpr and spr have index 0 forced to 0
\* whatever the volume and area; hence, for rhon increasing from
\* rhon[0] = 0, vpr_face[0], spr_face[0], vpr_hires[0] and spr_hires[0] are
\* exactly 0.
C20_AxisDerivativesZero ==
    StandardBuilt =>
        /\ ret.locals.vpr[1] = Zero
        /\ ret.locals.spr[1] = Zero
        /\ (args.rhon[1] = Zero /\ StrictlyIncreasing(args.rhon)) =>
              /\ ret.geo.vpr_face[1] = Zero
              /\ ret.geo.spr_face[1] = Zero
              /\ ret.geo.vpr_hires[1] = Zero
              /\ ret.geo.spr_hires[1] = Zero

C20_Witness ==
    /\ StandardBuilt
    /\ args.rhon[1] = Zero
    /\ StrictlyIncreasing(args.rhon)
    /\ args.volume[2] # args.volume[1]
    /\ args.area[2] # args.area[1]
    /\ ret.locals.vpr[2] # Zero
    /\ ret.geo.vpr_face[1] = Zero
    /\ ret.geo.spr_hires[1] = Zero
    /\ ret.geo.vpr_face[2] # Zero

\* build_geometry or build_geometry_from_chease has returned.
EntryPointReturned ==
    pc \in {"build_geometry", "build_geometry_from_chease"} /\ ret.status = "ok"

\* C15: the two entry points assign runtime_params.profile_conditions.Ip if
\* and only if the builder reports a current, that is iff Ip_from_parameters
\* is False, and then to Ip[last]/1e6; with Ip_from_parameters the
\* configuration, a time-dependent Ip included, is left as it was; and
\* nothing else is assigned: every other field keeps its value and the
\* profiles reach the builder as they were given.
C15_OnlyIpWrittenBack ==
    EntryPointReturned =>
        LET before == args.runtime_params
            Ip == ret.standard_args.Ip
        IN  /\ (ret.assigned # <<>>) <=> (ret.updated_Ip # None)
            /\ (ret.assigned # <<>>) <=> ~args.Ip_from_parameters
            /\ ~args.Ip_from_parameters =>
                  /\ ret.assigned = <<"profile_conditions.Ip">>
                  /\ runtime_params =
                        [before EXCEPT
                           !.profile_conditions.Ip = Div(Last(Ip), MA)]
            /\ args.Ip_from_parameters => runtime_params = before
            /\ runtime_params.numerics = before.numerics
            /\ runtime_params.profile_conditions.nbar =
                  before.profile_conditions.nbar
            /\ pc = "build_geometry" =>
                  \A f \in DOMAIN args.profiles :
                      ret.standard_args[f] = args.profiles[f]

C15_Witness ==
    /\ EntryPointReturned
    /\ pc = "build_geometry_from_chease"
    /\ ~args.Ip_from_parameters
    /\ IsSchedule(args.runtime_params.profile_conditions.Ip)
    /\ runtime_params.profile_conditions.Ip = One
    /\ runtime_params.numerics = args.runtime_params.numerics

\* C16: build_geometry_from_chease takes the directory of the file from
\* the geometry_dir argument when it is not None, even with
\* TORAX_GEOMETRY_DIR set; otherwise from the environment variable when it
\* is set; otherwise it is 'torax/data/third_party/geo'.  The file loaded
\* is the join of that directory and geometry_file.
C16_DirectoryPrecedence ==
    pc = "build_geometry_from_chease" =>
        LET env_set == "TORAX_GEOMETRY_DIR" \in DOMAIN args.environ
            dir == IF args.geometry_dir # None THEN args.geometry_dir.v
                   ELSE IF env_set THEN args.environ["TORAX_GEOMETRY_DIR"]
                   ELSE <<"torax", "/", "data", "/", "third_party", "/", "geo">>
        IN  ret.file_path = os_path_join(dir, args.geometry_file)

C16_Witness ==
    /\ pc = "build_geometry_from_chease"
    /\ args.geometry_dir = Some(<<"geo_a">>)
    /\ "TORAX_GEOMETRY_DIR" \in DOMAIN args.environ
    /\ ret.file_path =
          <<"geo_a", "/", "ITER_hybrid_citrin_equil_cheasedata.mat2cols">>
    /\ ret.status = "ok"

\* The same call of _build_standard_geometry without config_Ip.
WithoutConfigIp == build_standard_geometry([args EXCEPT !.config_Ip = None])

\* C21: jtot and jtot_face carry the very factor psi_from_Ip carries:
\* config_Ip*1e6/Ip[last] with config_Ip, 1 without.  On the native grid
\* jtot = 2 pi Rmaj gradient(Ip, volume) * Ip_scale_factor, and, for
\* Ip[last] # 0, the jtot, jtot_face and psi_from_Ip returned with
\* config_Ip = c are those returned without config_Ip times
\* c*1e6/Ip[last].
C21_SameFactorOnCurrentAndFlux ==
    StandardBuilt =>
        LET factor == IF args.config_Ip = None THEN One
                      ELSE Div(Mul(args.config_Ip.v, MA), Last(args.Ip))
            unscaled == SMul(Mul(Norm(2, 1, 1), args.Rmaj),
                             gradient(args.Ip, args.volume))
            without == WithoutConfigIp.geo
        IN  /\ ret.locals.Ip_scale_factor = factor
            /\ ret.locals.jtot = SMul(factor, unscaled)
            /\ ret.locals.psi_from_Ip =
                  SMul(factor, ret.locals.psi_from_Ip_unscaled)
            /\ Last(args.Ip) # Zero =>
                  /\ ret.geo.jtot = SMul(factor, without.jtot)
                  /\ ret.geo.jtot_face = SMul(factor, without.jtot_face)
                  /\ ret.geo.psi_from_Ip = SMul(factor, without.psi_from_Ip)

C21_Witness ==
    /\ StandardBuilt
    /\ args.config_Ip = Some(Int2Num(2))
    /\ Last(args.Ip) = Int2Num(500000)
    /\ ret.locals.Ip_scale_factor = Int2Num(4)
    /\ ret.geo.jtot = SMul(Int2Num(4), WithoutConfigIp.geo.jtot)
    /\ ret.geo.jtot # WithoutConfigIp.geo.jtot
    /\ ret.geo.psi_from_Ip # WithoutConfigIp.geo.psi_from_Ip

\* C22: on the native grid g3[0] = 1/Rin[0]^2 and g2g3_over_rho[0] = 0,
\* both finite although int_Jdchi[0] and rho[0] may be 0 (nothing is
\* divided by them); off the axis g3[i] = flux_norm_1_over_R2[i] and
\* g2g3_over_rho[i] = g2[i]*g3[i]/rho[i]; and dpsidrho[0] = 0, the
\* quotient by g2g3_over_rho being taken off the axis only.
C22_AxisValuesWithoutDivision ==
    StandardBuilt =>
        LET l == ret.locals
        IN  /\ l.g3[1] = Inv(Sq(args.Rin[1]))
            /\ l.g2g3_over_rho[1] = Zero
            /\ l.dpsidrho[1] = Zero
            /\ \A i \in 2..Len(args.rho) :
                  /\ l.g3[i] = args.flux_norm_1_over_R2[i]
                  /\ l.g2g3_over_rho[i] =
                        Div(Mul(l.g2[i], l.g3[i]), args.rho[i])
                  /\ l.dpsidrho[i] =
                        Div(Mul(args.Ip[i], flux_constant),
                            Mul(Mul(l.g2g3_over_rho[i], args.Rmaj),
                                args.RBPhi[i]))

C22_Witness ==
    /\ StandardBuilt
    /\ args.int_Jdchi[1] = Zero
    /\ args.rho[1] = Zero
    /\ Len(args.rho) = 4
    /\ ret.locals.g3[1] = Rat(1, 9)
    /\ ret.locals.g2g3_over_rho[1] = Zero
    /\ IsNaN(Div(Mul(ret.locals.g2[1], ret.locals.g3[1]), args.rho[1]))
    /\ IsNaN(Div(Mul(args.flux_norm_1_over_R2[1], args.int_Jdchi[1]),
                 args.int_Jdchi[1]))
    /\ ret.locals.g2g3_over_rho[2] # Zero
    /\ ret.locals.dpsidrho[1] = Zero

\* C23: every J array of a geometry is F/(Rmaj*B): J on the cells, J_face
\* on the faces, and J_hires is RBPhi interpolated onto the hires grid and
\* divided by Rmaj*B, so that RBPhi = Rmaj*B everywhere gives
\* J = J_face = J_hires = 1 (as the circular builder returns).
C23_EveryJIsFOverRmajB ==
    /\ pc = "build_circular_geometry" =>
          /\ ret.J = ones(args.nr) /\ ret.J_face = ones(args.nr + 1)
          /\ ret.J_hires = ones(args.nr * args.hires_fac)
          /\ ret.J = SDiv(SDiv(ret.F, args.Rmaj), args.B0)
          /\ ret.J_face = SDiv(SDiv(ret.F_face, args.Rmaj), args.B0)
    /\ StandardBuilt =>
          /\ ret.geo.J = SDiv(SDiv(ret.geo.F, args.Rmaj), args.B)
          /\ ret.geo.J_face = SDiv(SDiv(ret.geo.F_face, args.Rmaj), args.B)
          /\ ret.geo.J_hires =
                SDiv(SDiv(interp(ret.geo.r_hires_norm, args.rhon, args.RBPhi),
                          args.Rmaj), args.B)
          /\ (\A i \in 1..Len(args.RBPhi) :
                 args.RBPhi[i] = Mul(args.Rmaj, args.B)) =>
                /\ ret.geo.J = ones(args.nr)
                /\ ret.geo.J_face = ones(args.nr + 1)
                /\ ret.geo.J_hires = ones(args.nr * args.hires_fac)

\* build_circular_geometry returned the closed-form derivatives
\*   dV/dr = 4 pi^2 Rmaj r k + 2 pi^2 Rmaj r^2 (kappa_param - 1)/Rmin
\*   dS/dr = 2 pi r k + pi r^2 (kappa_param - 1)/Rmin
\* on the three grids, g0 = vpr and g1 = vpr^2, and g1_over_vpr = vpr,
\* g1_over_vpr2 = 1 on the cells: at every point if everywhere, otherwise
\* at the points whose elongation k is not 0 and on the cells whose vpr is
\* finite and not 0.
ClosedFormDerivatives(everywhere) ==
    LET Defined(k) == everywhere \/ k # Zero
        NonSingular(v) == everywhere \/ (IsFinite(v) /\ v # Zero)
        dVdr(r, k) ==
            Add(Mul(Mul(Mul(Norm(4, 1, 2), args.Rmaj), r), k),
                Div(Mul(Mul(Mul(Norm(2, 1, 2), args.Rmaj), Sq(r)),
                        Sub(args.kappa, One)), args.Rmin))
        dSdr(r, k) ==
            Add(Mul(Mul(Norm(2, 1, 1), r), k),
                Div(Mul(Mul(PiPow(1), Sq(r)), Sub(args.kappa, One)),
                    args.Rmin))
    IN  /\ \A g \in {<<"r", "kappa", "vpr", "spr_cell">>,
                     <<"r_face", "kappa_face", "vpr_face", "spr_face">>,
                     <<"r_hires", "kappa_hires", "vpr_hires", "spr_hires">>} :
              \A i \in 1..Len(ret[g[1]]) :
                  Defined(ret[g[2]][i]) =>
                      /\ ret[g[3]][i] = dVdr(ret[g[1]][i], ret[g[2]][i])
                      /\ ret[g[4]][i] = dSdr(ret[g[1]][i], ret[g[2]][i])
        /\ ret.g0 = ret.vpr /\ ret.g0_face = ret.vpr_face
        /\ ret.g1 = VSq(ret.vpr) /\ ret.g1_face = VSq(ret.vpr_face)
        /\ \A i \in 1..Len(ret.r) :
              NonSingular(ret.vpr[i]) =>
                  /\ ret.g1_over_vpr[i] = ret.vpr[i]
                  /\ ret.g1_over_vpr2[i] = One

\* C24 as stated: in build_circular_geometry vpr and spr equal the closed
\* forms 4 pi^2 Rmaj r kappa + 2 pi^2 Rmaj r^2 (kappa_param-1)/Rmin and
\* 2 pi r kappa + pi r^2 (kappa_param-1)/Rmin at every point of the cell,
\* face and hires grids, g0 = vpr, g1 = vpr^2, and g1_over_vpr = vpr,
\* g1_over_vpr2 = 1 on every cell.
C24_ClosedFormDerivativesEverywhere ==
    pc = "build_circular_geometry" =>  ClosedFormDerivatives(TRUE)

\* C24, amended: the closed forms hold at every grid point where the
\* elongation profile is not 0 (the code divides volume and area by it),
\* which is every point when kappa_param > 0; g0 = vpr and g1 = vpr^2
\* always; g1_over_vpr = vpr and g1_over_vpr2 = 1 on every cell whose vpr
\* is finite and not 0.
C24_ClosedFormDerivatives ==
    pc = "build_circular_geometry" =>
        /\ ClosedFormDerivatives(FALSE)
        /\ Lt(Zero, args.kappa) =>
              \A f \in {"kappa", "kappa_face", "kappa_hires"} :
                  \A i \in 1..Len(ret[f]) : Lt(Zero, ret[f][i])

C24_Witness ==
    /\ pc = "build_circular_geometry"
    /\ args.kappa = Rat(3, 2)
    /\ args.nr = 2
    /\ args.hires_fac = 2
    /\ args.Rmaj = Int2Num(3)
    /\ args.Rmin = Int2Num(2)
    /\ ret.r = <<Half, Rat(3, 2)>>
    /\ ret.kappa = <<Rat(9, 8), Rat(11, 8)>>
    /\ ret.vpr[1] = Add(Norm(27, 4, 2), Norm(3, 8, 2))
    /\ ret.spr_cell[1] = Add(Norm(9, 8, 1), Norm(1, 16, 1))
    /\ ret.vpr_hires[4] = Norm(42, 1, 2)
    /\ ret.g1_over_vpr = ret.vpr
    /\ ret.g1_over_vpr2 = <<One, One>>

ConformedStaysConformed(everywhere) ==
    (/\ pc = "build_geometry" /\ pc' = "build_geometry"
     /\ ret.status = "ok"
     /\ \/ ~args.Ip_from_parameters
        \/ \E i \in 1..Len(args.earlier) : ~args.earlier[i]) =>
        /\ args'.profiles = args.profiles
        /\ args'.runtime_params = runtime_params
        /\ ret'.status = "ok"
        /\ runtime_params' = runtime_params
        /\ runtime_params'.profile_conditions.Ip =
              Div(Last(args.profiles.Ip), MA)
        /\ (everywhere \/ Last(args.profiles.Ip) # Zero) =>
              /\ ret'.locals.Ip_scale_factor = One
              /\ ret'.geo.psi_from_Ip = ret.geo.psi_from_Ip
              /\ ret'.geo.jtot = ret.geo.jtot
              /\ ret'.geo.jtot_face = ret.geo.jtot_face

\* C30 as stated: in any sequence of build_geometry calls on the same
\* runtime_params and profiles, after a call with Ip_from_parameters=False
\* a following call with Ip_from_parameters=True uses a scale factor of 1
\* and returns the same psi_from_Ip and jtot, and a repeated call with
\* Ip_from_parameters=False leaves the configuration Ip at the same value.
C30_SameAfterWriteBackForAnyIp == [][ConformedStaysConformed(TRUE)]_vars

\* C30, amended: the same for profiles with Ip[last] # 0; with
\* Ip[last] = 0 the write-back is still idempotent, but the configuration
\* Ip is 0 and the scale factor 0*1e6/0 of a following call with
\* Ip_from_parameters=True is not 1.
C30_SameAfterWriteBack == [][ConformedStaysConformed(FALSE)]_vars

C30_Witness ==
    /\ pc = "build_geometry"
    /\ ret.status = "ok"
    /\ args.earlier = <<TRUE, FALSE>>
    /\ args.Ip_from_parameters
    /\ Last(args.profiles.Ip) = Int2Num(1250000)
    /\ args.runtime_params.profile_conditions.Ip = Rat(5, 4)
    /\ ret.standard_args.config_Ip = Some(Rat(5, 4))
    /\ ret.locals.rescaled
    /\ ret.locals.Ip_scale_factor = One
    /\ runtime_params = args.runtime_params

\* C25: get_source_profiles returns exactly the output of model_func when
\* the mode is MODEL_BASED, exactly the output of formula when it is
\* FORMULA_BASED, and zeros of output_shape for ZERO and every other mode;
\* the two outputs are never added together.
C25_ProfileOfTheMode ==
    pc = "get_source_profiles" =>
        ret.value = CASE args.mode = Mode.MODEL_BASED -> args.model_func
                      [] args.mode = Mode.FORMULA_BASED -> args.formula
                      [] OTHER -> jnp_zeros(args.output_shape)

C25_Witness ==
    /\ pc = "get_source_profiles"
    /\ args.mode = 1
    /\ args.output_shape = <<2, 2>>
    /\ args.model_func = <<<<Int2Num(2), Int2Num(4)>>,
                           <<Int2Num(6), Int2Num(8)>>>>
    /\ args.formula = <<<<Int2Num(-1), Int2Num(-2)>>,
                        <<Int2Num(-3), Int2Num(-4)>>>>
    /\ ret.value = args.model_func

\* C26: Source.get_value raises an error if and only if the mode is not
\* one of the source's supported_modes, and then before any profile is
\* computed; in a supported mode whose function is not provided
\* (model_func None under MODEL_BASED, formula None under FORMULA_BASED) it
\* returns zeros of the output shape, and the output of the function when
\* it is provided.
C26_UnsupportedModeRaises ==
    pc = "get_value" =>
        LET self == args.self
            supported == \E i \in 1..Len(self.supported_modes) :
                             self.supported_modes[i] = args.mode
            output_shape ==
                IF self.output_shape_getter = "get_cell_profile_shape"
                THEN <<Len(args.geo.r)>> ELSE <<2, Len(args.geo.r)>>
            func == IF args.mode = Mode.MODEL_BASED THEN self.model_func
                    ELSE IF args.mode = Mode.FORMULA_BASED THEN self.formula
                    ELSE None
        IN  /\ ret.status = "error" <=> ~supported
            /\ ret.status = "error" =>
                  ret.called = {} /\ "value" \notin DOMAIN ret
            /\ ret.status # "error" =>
                  /\ ret.status = "ok"
                  /\ func = None => ret.value = jnp_zeros(output_shape)
                  /\ func # None =>
                        ret.value = SourceOutput(output_shape, func.v)

C26_Witness ==
    /\ pc = "get_value"
    /\ args.self.supported_modes = <<Mode.MODEL_BASED>>
    /\ args.self.model_func = None
    /\ args.self.formula = Some(2)
    /\ args.mode = Mode.MODEL_BASED
    /\ Len(args.geo.r) = 2
    /\ args.self.output_shape_getter = "_get_ion_el_output_shape"
    /\ ret.status = "ok"
    /\ ret.called = {"formula"}
    /\ ret.value = <<<<Zero, Zero>>, <<Zero, Zero>>>>

\* C27: Source.get_source_profile_for_affected_core_profile returns the
\* row of the profile at the position of the requested core profile in
\* affected_core_profiles when the source affects it and zeros on the cell
\* grid (the shape of geo.r) otherwise; that of SingleProfileSource returns
\* the whole profile or the zeros under the same condition.
C27_RowOfTheAffectedProfile ==
    pc = "get_source_profile_for_affected_core_profile" =>
        LET ints == args.self.affected_core_profiles
            position(i) == /\ ints[i] = args.affected_core_profile
                           /\ \A j \in 1..(i - 1) :
                                 ints[j] # args.affected_core_profile
            affected == \E i \in 1..Len(ints) : position(i)
        IN  /\ ~affected => ret.value = zeros(Len(args.geo.r))
            /\ (affected /\ args.self.class = "Source") =>
                  \A i \in 1..Len(ints) :
                      position(i) => ret.value = args.profile[i]
            /\ (affected /\ args.self.class = "SingleProfileSource") =>
                  ret.value = args.profile
            /\ Len(ret.value) = Len(args.geo.r)

C27_Witness ==
    /\ pc = "get_source_profile_for_affected_core_profile"
    /\ args.self.class = "Source"
    /\ args.self.affected_core_profiles = <<3, 4>>
    /\ args.affected_core_profile = 4
    /\ args.profile = <<<<Int2Num(1), Int2Num(2)>>,
                        <<Int2Num(3), Int2Num(4)>>>>
    /\ ret.value = <<Int2Num(3), Int2Num(4)>>

\* C28: make_source_builder raises ValueError exactly for a source
\* dataclass with a field named runtime_params.  For an accepted source
\* type the constructor of the builder rejects, with a TypeError, a
\* runtime_params that is not an instance of runtime_params_type; and the
\* call of a builder never passes runtime_params to the Source and returns
\* a Source whose every init field has the value the builder holds at the
\* time of the call.
C28_BuilderBuildsFromItsFields ==
    /\ pc = "make_source_builder" =>
          /\ ret.status = "ValueError" <=>
                \E i \in 1..Len(args.source_type.fields) :
                    args.source_type.fields[i].name = "runtime_params"
          /\ ret.status \in {"ValueError", "ok"}
    /\ pc = "SourceBuilder" =>
          LET type == args.builder_type.runtime_params_type
              isinstance(v) == \/ v.kind = type
                               \/ /\ v.kind = "FooRuntimeParams"
                                  /\ type = "RuntimeParams"
              rejected == /\ "runtime_params" \in DOMAIN args.kwargs
                          /\ ~isinstance(args.kwargs.runtime_params)
          IN  /\ rejected => ret.status # "ok"
              /\ (rejected /\ ret.status # "AssertionError") =>
                    ret.status = "TypeError"
              /\ (rejected /\ ret.status = "AssertionError") =>
                    /\ "formula" \in DOMAIN args.kwargs
                    /\ args.kwargs.formula.kind = "int"
              /\ (ret.status = "ok" /\ ret.assigned = <<>>) =>
                    isinstance(ret.self.runtime_params)
    /\ pc = "build_source" =>
          LET source_fields == args.builder_type.source_fields
              fields == args.builder_type.source_type.fields
          IN  /\ "runtime_params" \in DOMAIN args.self
              /\ "runtime_params" \notin DOMAIN ret.source_init_kwargs
              /\ ret.status = "ok" <=> args.self.formula.kind # "int"
              /\ ret.status = "ok" =>
                    /\ \A i \in 1..Len(source_fields) :
                          ret.source[source_fields[i].name] =
                              args.self[source_fields[i].name]
                    /\ DOMAIN ret.source =
                          {fields[i].name : i \in 1..Len(fields)}
                    /\ "runtime_params" \notin DOMAIN ret.source

C28_Witness ==
    /\ pc = "build_source"
    /\ args.builder_type.name = <<"SingleProfileSource", "Builder">>
    /\ args.builder_type.runtime_params_type = "RuntimeParams"
    /\ args.self.runtime_params = [kind |-> "FooRuntimeParams"]
    /\ args.self.formula = [kind |-> "callable", v |-> 2]
    /\ ret.status = "ok"
    /\ ret.source.formula = [kind |-> "callable", v |-> 2]
    /\ ret.source.affected_core_profiles = [kind |-> "affected", v |-> <<1>>]
    /\ ret.source.output_shape_getter.v = "get_cell_profile_shape"
    /\ "output_shape_getter" \notin DOMAIN args.self

====
